---------------------------- MODULE Spec2Model ----------------------------
(***************************************************************************)
(* A model of the plza-trainer-info save container codec: the keystream    *)
(* generator (scxorshift.py), the type table (sctypecode.py), the block    *)
(* codec (scblock.py), the container codec (swishcrypto.py), the name hash *)
(* (fnvhash.py), the block index (hashdb.py), the CoreData record          *)
(* (coredata.py) and the commands (main.py).                               *)
(*                                                                         *)
(* Representation of the program's values:                                 *)
(*   - a byte is a number in 0..255, a byte string a sequence of bytes;    *)
(*   - a 32-bit unsigned word is a pair <<lo, hi>> of 16-bit halves (the   *)
(*     value lo + 65536 * hi), so that every operation keeps its width;    *)
(*   - a Python int is a record [kind |-> "int", neg, mag], mag being the  *)
(*     base-256 little-endian magnitude without leading zero digits;       *)
(*   - a Python float is a record [kind |-> "float", fmt, bits]: the float *)
(*     whose IEEE-754 encoding in format fmt ("f" or "d") is bits;         *)
(*   - an SCTypeCode member is its enum value;                             *)
(*   - an SCBlock is a record [key, type, raw, sub_type];                  *)
(*   - a call that may raise returns a record with a field ok, and with    *)
(*     err naming the exception when ok is FALSE.                          *)
(*                                                                         *)
(* Seven specifications share the variables: Spec runs the container       *)
(* pipeline (encrypt, decrypt, get_is_hash_valid, a bit changing on disk)  *)
(* on sample block lists and files, SpecBlock calls the methods of one     *)
(* SCBlock, SpecRead decodes byte buffers, SpecXorpad scrambles them,      *)
(* SpecIndex builds a HashDB and looks up, tests membership, edits and     *)
(* assigns through it, SpecKey draws bytes and words from two keystream    *)
(* generators of one seed, and SpecMain runs the commands of main.py       *)
(* statement by statement. Each leaves the others' variables at rest.      *)
(***************************************************************************)
EXTENDS Integers, Sequences, FiniteSets, TLC

---------------------------------------------------------------------------
(* Bytes, bit operations and 32-bit words                                  *)

\* The element of a one-element set. Only({ e : x \in {v} }) is e with x the
\* value of v: the way a local variable of the code, assigned once and read
\* several times, is written below.
Only(S) == CHOOSE v \in S : TRUE

\* The values of the bits of a 16-bit number.
BitValues == {1, 2, 4, 8, 16, 32, 64, 128, 256, 512, 1024, 2048, 4096, 8192, 16384, 32768}

\* a ^ b for two 4-bit numbers, bit by bit, and as a table indexed from 1.
XorNibble(a, b) ==
  ((a + b) % 2)
    + 2 * (((a \div 2) + (b \div 2)) % 2)
    + 4 * (((a \div 4) + (b \div 4)) % 2)
    + 8 * (((a \div 8) + (b \div 8)) % 2)

XorTable == [a \in 1..16 |-> [b \in 1..16 |-> XorNibble(a - 1, b - 1)] \o << >>] \o << >>

\* Nibble p (a power of 16) of a ^ b.
XorAt(a, b, p) == XorTable[((a \div p) % 16) + 1][((b \div p) % 16) + 1] * p

\* Python's ^ on two ints in 0..65535 (bytes, and the halves of a word).
BitXor(a, b) ==
  Only({ XorAt(x, y, 1) + XorAt(x, y, 16) + XorAt(x, y, 256) + XorAt(x, y, 4096)
         : x \in {a}, y \in {b} })

\* bin(x).count('1') of an int in 0..65535.
BitCount(a) == Only({ Cardinality({ p \in BitValues : (x \div p) % 2 = 1 }) : x \in {a} })

\* The 32-bit word of a small non-negative number.
U32(n) == Only({ << x % 65536, x \div 65536 >> : x \in {n} })

U32Xor(a, b) ==
  Only({ << BitXor(x[1], y[1]), BitXor(x[2], y[2]) >> : x \in {a}, y \in {b} })

\* struct.pack('>I', w): the byte order mistaken, most significant byte first.
pack_u32_big_endian(w) ==
  Only({ << x[2] \div 256, x[2] % 256, x[1] \div 256, x[1] % 256 >> : x \in {w} })

\* struct.pack('<I', w): the four bytes of a word, least significant first.
pack_u32(w) ==
  Only({ << x[1] % 256, x[1] \div 256, x[2] % 256, x[2] \div 256 >> : x \in {w} })

\* struct.unpack('<I', data[o:o+4])[0], o counted from 0.
unpack_u32(data, o) ==
  Only({ << d[1] + 256 * d[2], d[3] + 256 * d[4] >> : d \in {SubSeq(data, o + 1, o + 4)} })

\* data[a:b] of Python for 0 <= a, any b: the bytes at offsets a..b-1 that exist.
Slice(data, a, b) ==
  Only({ IF a >= b \/ a >= Len(d) THEN << >>
         ELSE SubSeq(d, a + 1, IF b > Len(d) THEN Len(d) ELSE b)
         : d \in {data} })

\* data[:-n] and data[-n:] of Python, n > 0.
DropLast(data, n) ==
  Only({ IF Len(d) <= n THEN << >> ELSE SubSeq(d, 1, Len(d) - n) : d \in {data} })

TakeLast(data, n) ==
  Only({ IF Len(d) <= n THEN d ELSE SubSeq(d, Len(d) - n + 1, Len(d)) : d \in {data} })

---------------------------------------------------------------------------
(* scxorshift.py: SCXorShift32                                             *)

\* state << k and state >> k on 32 bits, with the mask & 0xFFFFFFFF applied.
Shl32(w, k) ==
  Only({ << (x[1] * m) % 65536, ((x[2] * m) % 65536) + ((x[1] * m) \div 65536) >>
         : x \in {w}, m \in {IF k = 2 THEN 4 ELSE 8192} })

Shr15(w) ==
  Only({ << ((x[2] * 2) % 65536) + (x[1] \div 32768), x[2] \div 32768 >> : x \in {w} })

\* state ^= state << 2; state ^= state >> 15; state ^= state << 13.
xorshift_advance(state) ==
  Only({ U32Xor(b, Shl32(b, 13)) :
         b \in { U32Xor(a, Shr15(a)) :
                 a \in { U32Xor(s, Shl32(s, 2)) : s \in {state} } } })

\* The loop "for _ in range(pop_count): state = advance(state)": n rounds, run
\* in order as the first half of them and then the rest.
RECURSIVE AdvanceLoop(_, _)
AdvanceLoop(state, n) ==
  IF n = 0 THEN state
  ELSE IF n = 1 THEN xorshift_advance(state)
  ELSE Only({ AdvanceLoop(s, n - (n \div 2)) : s \in {AdvanceLoop(state, n \div 2)} })

get_initial_state(state) ==
  Only({ AdvanceLoop(state, pop_count) : pop_count \in {BitCount(state[1]) + BitCount(state[2])} })

SCXorShift32(seed) == [counter |-> 0, state |-> get_initial_state(seed)]

\* Byte c (0..3) of a word: (state >> (c << 3)) & 0xFF.
StateByte(state, c) ==
  CASE c = 0 -> state[1] % 256
    [] c = 1 -> state[1] \div 256
    [] c = 2 -> state[2] % 256
    [] c = 3 -> state[2] \div 256

\* xk.next() with the state advanced at c == 2: a word gives three bytes.
xk_next_three_bytes(xk) ==
  Only({ [val |-> StateByte(g.state, g.counter),
          xk  |-> IF g.counter = 2
                  THEN [counter |-> 0, state |-> xorshift_advance(g.state)]
                  ELSE [counter |-> g.counter + 1, state |-> g.state]]
         : g \in {xk} })

\* xk.next(): the byte returned and the generator afterwards.
xk_next(xk) ==
  Only({ [val |-> StateByte(g.state, g.counter),
          xk  |-> IF g.counter = 3
                  THEN [counter |-> 0, state |-> xorshift_advance(g.state)]
                  ELSE [counter |-> g.counter + 1, state |-> g.state]]
         : g \in {xk} })

\* xk.next32(): four next() bytes combined least significant first.
xk_next32(xk) ==
  Only({ Only({ Only({ Only({
    [val |-> << r0.val + 256 * r1.val, r2.val + 256 * r3.val >>, xk |-> r3.xk]
      : r3 \in {xk_next(r2.xk)} })
      : r2 \in {xk_next(r1.xk)} })
      : r1 \in {xk_next(r0.xk)} })
      : r0 \in {xk_next(xk)} })

\* The loops "for byte in raw: byte ^ xk.next()" and "arr[i] ^= xk.next()" over
\* data[lo..hi]: the bytes produced and the generator afterwards. The rounds run
\* in order, one xk_next each; the range is halved only to bound the depth of
\* the evaluation.
RECURSIVE CryptRange(_, _, _, _)
CryptRange(data, lo, hi, xk) ==
  IF lo > hi THEN [out |-> << >>, xk |-> xk]
  ELSE IF lo = hi
  THEN Only({ [out |-> << BitXor(data[lo], r.val) >>, xk |-> r.xk] : r \in {xk_next(xk)} })
  ELSE Only({ Only({ [out |-> l.out \o r.out, xk |-> r.xk]
                     : r \in {CryptRange(data, ((lo + hi) \div 2) + 1, hi, l.xk)} })
              : l \in {CryptRange(data, lo, (lo + hi) \div 2, xk)} })

CryptLoop(data, xk) ==
  Only({ CryptRange(d, 1, Len(d), g).out : d \in {data}, g \in {xk} })

---------------------------------------------------------------------------
(* sctypecode.py: SCTypeCode                                               *)

NONE == 0
BOOL1 == 1
BOOL2 == 2
BOOL3 == 3
OBJECT == 4
ARRAY == 5
BYTE == 8
UINT16 == 9
UINT32 == 10
UINT64 == 11
SBYTE == 12
INT16 == 13
INT32 == 14
INT64 == 15
SINGLE == 16
DOUBLE == 17

\* The members of the enum: SCTypeCode(v) raises ValueError for any other v.
SCTypeCode == {NONE, BOOL1, BOOL2, BOOL3, OBJECT, ARRAY, BYTE, UINT16, UINT32,
               UINT64, SBYTE, INT16, INT32, INT64, SINGLE, DOUBLE}

is_boolean(t) == t \in {1, 2, 3}

\* The types get_type_size accepts; for any other it raises ValueError.
HasTypeSize(t) ==
  t \in {BOOL3, BYTE, SBYTE, UINT16, INT16, UINT32, INT32, SINGLE, UINT64, INT64, DOUBLE}

get_type_size(t) ==
  CASE t = BOOL3 -> 1
    [] t \in {BYTE, SBYTE} -> 1
    [] t \in {UINT16, INT16} -> 2
    [] t \in {UINT32, INT32, SINGLE} -> 4
    [] t \in {UINT64, INT64, DOUBLE} -> 8

---------------------------------------------------------------------------
(* Python values handed to and returned by get_value / set_value           *)

IntVal(neg, mag) == [kind |-> "int", neg |-> neg, mag |-> mag]

FloatVal(fmt, bits) == [kind |-> "float", fmt |-> fmt, bits |-> bits]

\* The number of digits of a little-endian digit string once its leading
\* (most significant) zero digits are dropped.
RECURSIVE SignificantLen(_, _)
SignificantLen(bytes, n) ==
  IF n = 0 THEN 0
  ELSE IF bytes[n] # 0 THEN n
  ELSE SignificantLen(bytes, n - 1)

\* The non-negative int whose little-endian base-256 digits are bytes.
IntOfBytes(bytes) == IntVal(FALSE, SubSeq(bytes, 1, SignificantLen(bytes, Len(bytes))))

\* mag as n little-endian bytes, zero filled.
PadTo(mag, n) == [i \in 1..n |-> IF i <= Len(mag) THEN mag[i] ELSE 0]

\* 2^(8n) - x on n bytes (two's complement negation): every byte complemented,
\* plus one, the carry running up through the low bytes that are zero.
TwosNegate(bytes) ==
  [i \in 1..Len(bytes) |->
     (255 - bytes[i] + (IF \A j \in 1..(i - 1) : bytes[j] = 0 THEN 1 ELSE 0)) % 256]

\* struct formats 'H', 'I', 'Q' (n = 2, 4, 8): 0 <= value <= 2^(8n) - 1.
InUnsignedRange(v, n) == ~v.neg /\ Len(v.mag) <= n

\* struct formats 'h', 'i', 'q' and 'b': -2^(8n-1) <= value <= 2^(8n-1) - 1.
InSignedRange(v, n) ==
  \/ Len(v.mag) < n
  \/ /\ Len(v.mag) = n
     /\ \/ v.mag[n] < 128
        \/ v.neg /\ v.mag[n] = 128 /\ \A j \in 1..(n - 1) : v.mag[j] = 0

\* struct.pack of an in-range int: little-endian, two's complement.
PackInt(v, n) == IF v.neg THEN TwosNegate(PadTo(v.mag, n)) ELSE PadTo(v.mag, n)

\* struct.unpack of n bytes as an unsigned / a signed int.
UnpackUnsigned(bytes) == IntOfBytes(bytes)

UnpackSigned(bytes) ==
  IF bytes[Len(bytes)] >= 128
  THEN IntVal(TRUE, IntOfBytes(TwosNegate(bytes)).mag)
  ELSE IntOfBytes(bytes)

\* value & 0xFF of a Python int: the low byte of its two's complement.
LowByte(v) ==
  IF v.mag = << >> THEN 0
  ELSE IF v.neg THEN (256 - v.mag[1]) % 256
  ELSE v.mag[1]

IsSigned(t) == t \in {SBYTE, INT16, INT32, INT64}

IsFloat(t) == t \in {SINGLE, DOUBLE}

FloatFmt(t) == IF t = SINGLE THEN "f" ELSE "d"

\* data with its first bytes replaced by bytes (pack_into at offset 0).
Overwrite(data, bytes) ==
  [i \in 1..Len(data) |-> IF i <= Len(bytes) THEN bytes[i] ELSE data[i]]

\* SCTypeCode.get_value(data).
type_get_value(t, data) ==
  IF ~HasTypeSize(t) THEN [ok |-> FALSE, err |-> "ValueError"]
  ELSE IF Len(data) < get_type_size(t) THEN [ok |-> FALSE, err |-> "ValueError"]
  ELSE LET bytes == SubSeq(data, 1, get_type_size(t))
       IN CASE t \in {BYTE, UINT16, UINT32, UINT64} ->
                 [ok |-> TRUE, val |-> UnpackUnsigned(bytes)]
            [] t \in {SBYTE, INT16, INT32, INT64} ->
                 [ok |-> TRUE, val |-> UnpackSigned(bytes)]
            [] t \in {SINGLE, DOUBLE} ->
                 [ok |-> TRUE, val |-> FloatVal(FloatFmt(t), bytes)]
            [] OTHER -> [ok |-> FALSE, err |-> "ValueError"]

\* n zero bytes.
Zeros(n) == [i \in 1..n |-> 0]

\* struct.pack_into(fmt, data, 0, value) for an integer format of n bytes: a
\* buffer shorter than n bytes is refused untouched; otherwise CPython clears
\* the n bytes and then converts the value, so that a value that is no int or
\* is out of the format's range raises struct.error with the n bytes zeroed.
pack_into_int(data, value, n, signed) ==
  IF Len(data) < n THEN [ok |-> FALSE, err |-> "struct.error", data |-> data]
  ELSE IF \/ value.kind # "int"
          \/ (signed /\ ~InSignedRange(value, n))
          \/ (~signed /\ ~InUnsignedRange(value, n))
  THEN [ok |-> FALSE, err |-> "struct.error", data |-> Overwrite(data, Zeros(n))]
  ELSE [ok |-> TRUE, err |-> "", data |-> Overwrite(data, PackInt(value, n))]

\* struct.pack_into('<f' / '<d', data, 0, value) for a float given in that
\* format (exactly representable in it).
pack_into_float(data, value, n) ==
  IF Len(data) < n THEN [ok |-> FALSE, err |-> "struct.error", data |-> data]
  ELSE [ok |-> TRUE, err |-> "", data |-> Overwrite(data, value.bits)]

\* SCTypeCode.set_value(data, value): whether it returned, the exception
\* otherwise, and the bytearray afterwards.
type_set_value(t, data, value) ==
  CASE t \in {BYTE, SBYTE} ->
         IF value.kind # "int" THEN [ok |-> FALSE, err |-> "TypeError", data |-> data]
         ELSE IF Len(data) = 0 THEN [ok |-> FALSE, err |-> "IndexError", data |-> data]
         ELSE [ok |-> TRUE, err |-> "", data |-> Overwrite(data, << LowByte(value) >>)]
    [] t \in {UINT16, UINT32, UINT64} -> pack_into_int(data, value, get_type_size(t), FALSE)
    [] t \in {INT16, INT32, INT64} -> pack_into_int(data, value, get_type_size(t), TRUE)
    [] t \in {SINGLE, DOUBLE} -> pack_into_float(data, value, get_type_size(t))
    [] OTHER -> [ok |-> FALSE, err |-> "ValueError", data |-> data]

---------------------------------------------------------------------------
(* scblock.py: SCBlock                                                     *)

\* SCBlock(key, block_type, data, sub_type).
SCBlock(key, block_type, data, sub_type) ==
  [key |-> key, type |-> block_type, raw |-> data, sub_type |-> sub_type]

\* Each method below returns [ok, err, block]: whether it returned normally,
\* the exception otherwise, and the block afterwards; get_value adds val.

\* change_boolean_type with is_boolean() for the test of both types, so that
\* the tri-state BOOL3 passes it.
change_boolean_type_any_boolean(b, value) ==
  IF ~is_boolean(b.type) \/ ~is_boolean(value)
  THEN [ok |-> FALSE, err |-> "ValueError", block |-> b]
  ELSE [ok |-> TRUE, err |-> "", block |-> [b EXCEPT !.type = value]]

\* change_boolean_type(value): both types must be BOOL1 or BOOL2.
change_boolean_type(b, value) ==
  IF b.type \notin {BOOL1, BOOL2} \/ value \notin {BOOL1, BOOL2}
  THEN [ok |-> FALSE, err |-> "ValueError", block |-> b]
  ELSE [ok |-> TRUE, err |-> "", block |-> [b EXCEPT !.type = value]]

\* change_data without the length test: self.raw[:] = value resizes the payload.
change_data_unchecked(b, value) ==
  [ok |-> TRUE, err |-> "", block |-> [b EXCEPT !.raw = value]]

\* change_data(value): the payload replaced by one of the same length.
change_data(b, value) ==
  IF Len(value) # Len(b.raw)
  THEN [ok |-> FALSE, err |-> "ValueError", block |-> b]
  ELSE [ok |-> TRUE, err |-> "", block |-> [b EXCEPT !.raw = value]]

\* has_value with >= for >, so that an array counts as a value.
has_value_from_array(b) == b.type >= ARRAY

\* has_value(): the type tag lies above ARRAY.
has_value(b) == b.type > ARRAY

\* get_value(): the payload decoded by the type tag.
get_value(b) ==
  IF ~has_value(b) THEN [ok |-> FALSE, err |-> "ValueError", block |-> b]
  ELSE LET r == type_get_value(b.type, b.raw)
       IN IF r.ok THEN [ok |-> TRUE, err |-> "", block |-> b, val |-> r.val]
          ELSE [ok |-> FALSE, err |-> r.err, block |-> b]

\* set_value(value): the payload overwritten in place by the encoded value.
set_value(b, value) ==
  IF ~has_value(b) THEN [ok |-> FALSE, err |-> "ValueError", block |-> b]
  ELSE LET r == type_set_value(b.type, b.raw, value)
       IN [ok |-> r.ok, err |-> r.err, block |-> [b EXCEPT !.raw = r.data]]

\* clone(): the new block. A block without payload bytes is built from key and
\* type alone, so that its sub_type is the default NONE.
clone(b) ==
  IF Len(b.raw) = 0 THEN SCBlock(b.key, b.type, << >>, NONE)
  ELSE IF b.sub_type = NONE THEN SCBlock(b.key, b.type, b.raw, NONE)
  ELSE SCBlock(b.key, b.type, b.raw, b.sub_type)

\* copy_from without the length test: self.raw = bytearray(other.raw).
copy_from_resizing(b, other) ==
  IF is_boolean(b.type) THEN change_boolean_type(b, other.type)
  ELSE [ok |-> TRUE, err |-> "", block |-> [b EXCEPT !.raw = other.raw]]

\* copy_from taking type and sub_type from other along with the payload.
copy_from_retagging(b, other) ==
  IF is_boolean(b.type) THEN change_boolean_type(b, other.type)
  ELSE IF Len(other.raw) # Len(b.raw)
  THEN [ok |-> FALSE, err |-> "ValueError", block |-> b]
  ELSE [ok |-> TRUE, err |-> "",
        block |-> [b EXCEPT !.raw = other.raw, !.type = other.type,
                            !.sub_type = other.sub_type]]

\* copy_from(other): the type of a boolean block, the payload of any other.
copy_from(b, other) ==
  IF is_boolean(b.type) THEN change_boolean_type(b, other.type)
  ELSE change_data(b, other.raw)

\* write_block with the payload encrypted in place: self.raw[i] ^= xk.next().
write_block_in_place(b, write_key) ==
  Only({
    IF self.type = OBJECT
    THEN Only({ [ok |-> TRUE, self |-> [self EXCEPT !.raw = CryptLoop(self.raw, w.xk)],
                 out |-> head \o << BitXor(self.type, t.val) >> \o pack_u32(U32Xor(U32(Len(self.raw)), w.val))
                           \o CryptLoop(self.raw, w.xk)]
                : w \in {xk_next32(t.xk)} })
    ELSE IF self.type = ARRAY
    THEN IF ~HasTypeSize(self.sub_type) THEN [ok |-> FALSE, err |-> "Unsupported type", self |-> self]
         ELSE Only({ Only({
                [ok |-> TRUE, self |-> [self EXCEPT !.raw = CryptLoop(self.raw, s.xk)],
                 out |-> head \o << BitXor(self.type, t.val) >>
                           \o pack_u32(U32Xor(U32(Len(self.raw) \div get_type_size(self.sub_type)),
                                              w.val))
                           \o << BitXor(self.sub_type, s.val) >>
                           \o CryptLoop(self.raw, s.xk)]
                : s \in {xk_next(w.xk)} })
                : w \in {xk_next32(t.xk)} })
    ELSE [ok |-> TRUE, self |-> [self EXCEPT !.raw = CryptLoop(self.raw, t.xk)],
          out |-> head \o << BitXor(self.type, t.val) >> \o CryptLoop(self.raw, t.xk)]
    : self \in {b},
      head \in {IF write_key THEN pack_u32(b.key) ELSE << >>},
      t \in {xk_next(SCXorShift32(b.key))} })

\* write_block(write_key): the bytes, or the exception of get_type_size for an
\* array whose sub_type has no size, and the block after the call, of which
\* write_block assigns no attribute.
write_block(b, write_key) ==
  Only({
    IF self.type = OBJECT
    THEN Only({ [ok |-> TRUE, self |-> self,
                 out |-> head \o << BitXor(self.type, t.val) >> \o pack_u32(U32Xor(U32(Len(self.raw)), w.val))
                           \o CryptLoop(self.raw, w.xk)]
                : w \in {xk_next32(t.xk)} })
    ELSE IF self.type = ARRAY
    THEN IF ~HasTypeSize(self.sub_type) THEN [ok |-> FALSE, err |-> "Unsupported type", self |-> self]
         ELSE Only({ Only({
                [ok |-> TRUE, self |-> self,
                 out |-> head \o << BitXor(self.type, t.val) >>
                           \o pack_u32(U32Xor(U32(Len(self.raw) \div get_type_size(self.sub_type)),
                                              w.val))
                           \o << BitXor(self.sub_type, s.val) >>
                           \o CryptLoop(self.raw, s.xk)]
                : s \in {xk_next(w.xk)} })
                : w \in {xk_next32(t.xk)} })
    ELSE [ok |-> TRUE, self |-> self,
          out |-> head \o << BitXor(self.type, t.val) >> \o CryptLoop(self.raw, t.xk)]
    : self \in {b},
      head \in {IF write_key THEN pack_u32(b.key) ELSE << >>},
      t \in {xk_next(SCXorShift32(b.key))} })

\* _ensure_array_is_sane raising ValueError where the code prints a warning.
ensure_array_is_sane_raising(sub_type, arr) ==
  IF sub_type = BOOL3
  THEN IF \E i \in 1..Len(arr) : arr[i] \notin {0, 1, 2}
       THEN [ok |-> FALSE, err |-> "ValueError", printed |-> << >>]
       ELSE [ok |-> TRUE, err |-> "", printed |-> << >>]
  ELSE IF sub_type <= ARRAY
  THEN [ok |-> FALSE, err |-> "ValueError", printed |-> << >>]
  ELSE [ok |-> TRUE, err |-> "", printed |-> << >>]

\* _ensure_array_is_sane(sub_type, arr): it returns normally whatever it finds;
\* printed are the bytes and the sub-type it prints a warning for.
ensure_array_is_sane(sub_type, arr) ==
  IF sub_type = BOOL3
  THEN [ok |-> TRUE, err |-> "",
        printed |-> SelectSeq(arr, LAMBDA byte : byte \notin {0, 1, 2})]
  ELSE IF sub_type <= ARRAY
  THEN [ok |-> TRUE, err |-> "", printed |-> << sub_type >>]
  ELSE [ok |-> TRUE, err |-> "", printed |-> << >>]

\* "offset + n > len(data)" with >= for >, so that a payload reaching the end
\* of the buffer is refused.
PastEndInclusive(data, offset, n, size) == n[2] > 0 \/ offset + n[1] * size >= Len(data)

\* "offset + n > len(data)" for a decoded 32-bit count n of elements of the
\* given size; buffers are shorter than 65536 bytes.
PastEnd(data, offset, n, size) == n[2] > 0 \/ offset + n[1] * size > Len(data)

ReadFail(msg) == [ok |-> FALSE, err |-> msg]

ReadOk(block, offset) == [ok |-> TRUE, block |-> block, offset |-> offset]

\* The branches of _read_from_offset_with_key with every member of SCTypeCode
\* taken as element type of an array, those without a size as one byte wide.
read_typed_any_element(data, key, block_type, o1, xk) ==
  IF block_type \in {BOOL1, BOOL2, BOOL3}
  THEN ReadOk(SCBlock(key, block_type, << >>, NONE), o1)
  ELSE IF block_type = OBJECT
  THEN IF o1 + 4 > Len(data) THEN ReadFail("Insufficient data for object length")
       ELSE Only({ Only({
              IF PastEnd(data, o1 + 4, num_bytes, 1)
              THEN ReadFail("Insufficient data for object payload")
              ELSE ReadOk(SCBlock(key, block_type,
                                  CryptLoop(Slice(data, o1 + 4, o1 + 4 + num_bytes[1]), w.xk),
                                  NONE),
                          o1 + 4 + num_bytes[1])
              : num_bytes \in {U32Xor(unpack_u32(data, o1), w.val)} })
              : w \in {xk_next32(xk)} })
  ELSE IF block_type = ARRAY
  THEN IF o1 + 4 > Len(data) THEN ReadFail("Insufficient data for array entry count")
       ELSE IF o1 + 4 >= Len(data) THEN ReadFail("Insufficient data for array sub-type")
       ELSE Only({ Only({ Only({ Only({
              IF sub_type \notin SCTypeCode THEN ReadFail("not a valid SCTypeCode")
              ELSE IF PastEnd(data, o1 + 5, num_entries, width)
              THEN ReadFail("Insufficient data for array payload")
              ELSE Only({ Only({ Only({
                     IF ~sane.ok THEN ReadFail(sane.err)
                     ELSE ReadOk(SCBlock(key, ARRAY, arr, sub_type), o1 + 5 + num_bytes)
                     : sane \in {ensure_array_is_sane(sub_type, arr)} })
                     : arr \in {CryptLoop(Slice(data, o1 + 5, o1 + 5 + num_bytes), s.xk)} })
                     : num_bytes \in {num_entries[1] * width} })
              : width \in {IF HasTypeSize(sub_type) THEN get_type_size(sub_type) ELSE 1} })
              : sub_type \in {BitXor(data[o1 + 5], s.val)} })
              : s \in {xk_next(w.xk)}, num_entries \in {U32Xor(unpack_u32(data, o1), w.val)} })
              : w \in {xk_next32(xk)} })
  ELSE IF ~HasTypeSize(block_type) THEN ReadFail("Unsupported type")
  ELSE Only({ IF o1 + num_bytes > Len(data) THEN ReadFail("Insufficient data for single value")
              ELSE ReadOk(SCBlock(key, block_type,
                                  CryptLoop(Slice(data, o1, o1 + num_bytes), xk),
                                  NONE),
                          o1 + num_bytes)
              : num_bytes \in {get_type_size(block_type)} })

\* The branch of _read_from_offset_with_key for the block type decoded: o1 is
\* the offset behind the type byte, xk the generator after it.
read_typed(data, key, block_type, o1, xk) ==
  IF block_type \in {BOOL1, BOOL2, BOOL3}
  THEN ReadOk(SCBlock(key, block_type, << >>, NONE), o1)
  ELSE IF block_type = OBJECT
  THEN IF o1 + 4 > Len(data) THEN ReadFail("Insufficient data for object length")
       ELSE Only({ Only({
              IF PastEnd(data, o1 + 4, num_bytes, 1)
              THEN ReadFail("Insufficient data for object payload")
              ELSE ReadOk(SCBlock(key, block_type,
                                  CryptLoop(Slice(data, o1 + 4, o1 + 4 + num_bytes[1]), w.xk),
                                  NONE),
                          o1 + 4 + num_bytes[1])
              : num_bytes \in {U32Xor(unpack_u32(data, o1), w.val)} })
              : w \in {xk_next32(xk)} })
  ELSE IF block_type = ARRAY
  THEN IF o1 + 4 > Len(data) THEN ReadFail("Insufficient data for array entry count")
       ELSE IF o1 + 4 >= Len(data) THEN ReadFail("Insufficient data for array sub-type")
       ELSE Only({ Only({ Only({
              IF sub_type \notin SCTypeCode THEN ReadFail("not a valid SCTypeCode")
              ELSE IF ~HasTypeSize(sub_type) THEN ReadFail("Unsupported type")
              ELSE IF PastEnd(data, o1 + 5, num_entries, get_type_size(sub_type))
              THEN ReadFail("Insufficient data for array payload")
              ELSE Only({ Only({ Only({
                     IF ~sane.ok THEN ReadFail(sane.err)
                     ELSE ReadOk(SCBlock(key, ARRAY, arr, sub_type), o1 + 5 + num_bytes)
                     : sane \in {ensure_array_is_sane(sub_type, arr)} })
                     : arr \in {CryptLoop(Slice(data, o1 + 5, o1 + 5 + num_bytes), s.xk)} })
                     : num_bytes \in {num_entries[1] * get_type_size(sub_type)} })
              : sub_type \in {BitXor(data[o1 + 5], s.val)} })
              : s \in {xk_next(w.xk)}, num_entries \in {U32Xor(unpack_u32(data, o1), w.val)} })
              : w \in {xk_next32(xk)} })
  ELSE IF ~HasTypeSize(block_type) THEN ReadFail("Unsupported type")
  ELSE Only({ IF o1 + num_bytes > Len(data) THEN ReadFail("Insufficient data for single value")
              ELSE ReadOk(SCBlock(key, block_type,
                                  CryptLoop(Slice(data, o1, o1 + num_bytes), xk),
                                  NONE),
                          o1 + num_bytes)
              : num_bytes \in {get_type_size(block_type)} })

\* _read_from_offset_with_key without the SCTypeCode() conversion of the type
\* byte: a byte that is no member is taken as a block without payload.
read_from_offset_with_key_unchecked_tag(data, key, offset) ==
  IF offset >= Len(data) THEN ReadFail("Insufficient data for block type")
  ELSE Only({ Only({
         IF block_type \notin SCTypeCode
         THEN ReadOk(SCBlock(key, block_type, << >>, NONE), offset + 1)
         ELSE read_typed(data, key, block_type, offset + 1, t.xk)
         : block_type \in {BitXor(data[offset + 1], t.val)} })
         : t \in {xk_next(SCXorShift32(key))} })

\* _read_from_offset_with_key(data, key, offset), offsets counted from 0.
read_from_offset_with_key(data, key, offset) ==
  IF offset >= Len(data) THEN ReadFail("Insufficient data for block type")
  ELSE Only({ Only({
         IF block_type \notin SCTypeCode THEN ReadFail("not a valid SCTypeCode")
         ELSE read_typed(data, key, block_type, offset + 1, t.xk)
         : block_type \in {BitXor(data[offset + 1], t.val)} })
         : t \in {xk_next(SCXorShift32(key))} })

\* read_from_offset(data, offset).
read_from_offset(data, offset) ==
  IF offset + 4 > Len(data) THEN ReadFail("Insufficient data for block key")
  ELSE read_from_offset_with_key(data, unpack_u32(data, offset), offset + 4)

---------------------------------------------------------------------------
(* swishcrypto.py: SwishCrypto                                             *)

SIZE_HASH == 32

INTRO_HASH_BYTES ==
  <<
    158, 201, 156, 215,  14, 211,  60,  68, 251, 147,   3, 220, 235,  57, 180,  42,
     25,  71, 233,  99,  75, 162,  51,  68,  22, 191, 130, 162, 186,  99,  85, 182,
     61, 157, 242,  75,  95, 123, 106, 178,  98,  29, 194,  27, 104, 229, 200, 181,
     58,   5, 144,   0, 232, 168,  16,  61, 226, 236, 240,  12, 178, 237,  79, 109 >>

OUTRO_HASH_BYTES ==
  <<
    214, 192,  28,  89, 139, 200, 184, 203,  70, 225,  83, 252, 130, 140, 117, 117,
     19, 224,  69, 223,  50, 105,  60, 117, 240,  89, 248, 217, 162,  95, 178,  23,
    224, 128,  82, 219, 234, 137, 115, 153, 117, 121, 175, 203,  46, 128,   7, 230,
    241,  38, 224,   3,  10, 230, 111, 246,  65, 191, 126,  89, 194, 174,  85, 253 >>

STATIC_XORPAD ==
  <<
    160, 146, 209,   6,   7, 219,  50, 161, 174,   1, 245, 197,  30, 132,  79, 227,
     83, 202,  55, 244, 167, 176,  77, 160,  24, 183, 194, 151, 218,  95,  83,  43,
    117, 250,  72,  22, 248, 212, 138, 111,  97,   5, 244, 226, 253,   4, 181, 163,
     15, 252,  68, 146, 203,  50, 230,  27, 185, 177,  46,   1, 176,  86,  83,  54,
    210, 209,  80,  61, 222,  91,  46,  14,  82, 253, 223,  47, 123, 202,  99,  80,
    164, 103,  93,  35,  23, 192,  82, 225, 166,  48, 124,  43, 182, 112,  54,  91,
     42,  39, 105,  51, 245,  99, 123,  54,  63,  38, 155, 163, 237, 122,  83,   0,
    164,  72, 179,  80, 158,  20, 160,  82, 222, 126,  16,  43,  27, 119, 110,   0 >>

\* hashlib.sha256 is the Python library's, not this program's. The model keeps
\* what the program relies on, a digest of SIZE_HASH bytes that is a function
\* of the bytes hashed, and stands in a position-weighted checksum for the
\* compression function. One property below rests on the strength of the
\* digest, C5, and on no more of it than the stand-in has: two inputs of up to
\* 511 bytes that differ in one bit have different digests (the sum changes by
\* the bit's value times the byte's position, a number between 1 and 65520,
\* and the first two bytes of the digest determine the sum).
RECURSIVE DigestSum(_, _, _)
DigestSum(data, lo, hi) ==
  IF lo > hi THEN 0
  ELSE IF lo = hi THEN ((data[lo] + 1) * lo) % 65521
  ELSE (DigestSum(data, lo, (lo + hi) \div 2)
          + DigestSum(data, ((lo + hi) \div 2) + 1, hi)) % 65521

Sha256Digest(data) ==
  Only({ [i \in 1..SIZE_HASH |-> (h * i + (h \div 256) + i) % 256] \o << >>
         : h \in { (DigestSum(d, 1, Len(d)) + Len(d)) % 65521 : d \in {data} } })

\* a[i] + b[i] on a byte for the positions of a: += written for ^=.
AddSeq(a, b) ==
  Only({ [i \in 1..Len(x) |-> (x[i] + b[i]) % 256] \o << >> : x \in {a} })

\* a[i] ^ b[i] for the positions of a.
XorSeq(a, b) ==
  Only({ [i \in 1..Len(x) |-> BitXor(x[i], b[i])] \o << >> : x \in {a} })

\* One round of the chunk loop of crypt_static_xorpad_bytes at the given offset:
\* the bytes at offset .. offset + len(xp) - 1 that exist are XORed with xp.
XorpadChunk(data, offset) ==
  Only({ Only({ SubSeq(d, 1, offset) \o XorSeq(chunk, STATIC_XORPAD)
                  \o SubSeq(d, offset + Len(chunk) + 1, Len(d))
                : chunk \in {Slice(d, offset, offset + Len(STATIC_XORPAD))} })
         : d \in {data} })

\* The chunk loop: rounds k, k+1, ..., iterations - 1, offset advancing by size.
RECURSIVE XorpadChunks(_, _, _, _)
XorpadChunks(data, k, iterations, size) ==
  IF k >= iterations THEN data
  ELSE Only({ XorpadChunks(d, k + 1, iterations, size) : d \in {XorpadChunk(data, k * size)} })

\* crypt_static_xorpad_bytes with size = len(xp): the pad repeating every 128
\* bytes.
crypt_static_xorpad_bytes_whole_pad(data) ==
  Only({ Only({ Only({ SubSeq(chunked, 1, offset)
                         \o XorSeq(SubSeq(chunked, offset + 1, Len(chunked)), STATIC_XORPAD)
                       : chunked \in {XorpadChunks(d, 0, iterations, size)},
                         offset \in {IF iterations > 0 THEN iterations * size ELSE 0} })
                : iterations \in {(Len(d) - 1) \div size} })
         : d \in {data}, size \in {Len(STATIC_XORPAD)} })

\* crypt_static_xorpad_bytes(data): the buffer afterwards.
crypt_static_xorpad_bytes(data) ==
  Only({ Only({ Only({ SubSeq(chunked, 1, offset)
                         \o XorSeq(SubSeq(chunked, offset + 1, Len(chunked)), STATIC_XORPAD)
                       : chunked \in {XorpadChunks(d, 0, iterations, size)},
                         offset \in {IF iterations > 0 THEN iterations * size ELSE 0} })
                : iterations \in {(Len(d) - 1) \div size} })
         : d \in {data}, size \in {Len(STATIC_XORPAD) - 1} })

\* compute_hash with the last byte of data left out of the digest.
compute_hash_skipping_last(data) ==
  Sha256Digest(INTRO_HASH_BYTES \o DropLast(data, 1) \o OUTRO_HASH_BYTES)

\* sha256(intro + data + outro).digest().
compute_hash(data) == Sha256Digest(INTRO_HASH_BYTES \o data \o OUTRO_HASH_BYTES)

\* get_is_hash_valid with <= for < in the length test, so that a file that is
\* its hash alone is refused.
get_is_hash_valid_strict(data) ==
  Only({ IF Len(d) <= SIZE_HASH THEN FALSE
         ELSE compute_hash(DropLast(d, SIZE_HASH)) = TakeLast(d, SIZE_HASH)
         : d \in {data} })

\* get_is_hash_valid(data): the stored hash against the computed one.
get_is_hash_valid(data) ==
  Only({ IF Len(d) < SIZE_HASH THEN FALSE
         ELSE compute_hash(DropLast(d, SIZE_HASH)) = TakeLast(d, SIZE_HASH)
         : d \in {data} })

\* read_blocks(data) from the given offset on, the blocks read so far in acc:
\* the list of blocks, or the exception of the block that cannot be read.
RECURSIVE ReadLoop(_, _, _)
ReadLoop(data, offset, acc) ==
  IF offset >= Len(data) THEN [ok |-> TRUE, blocks |-> acc]
  ELSE Only({ IF r.ok THEN ReadLoop(data, r.offset, Append(acc, r.block))
              ELSE [ok |-> FALSE, err |-> r.err]
              : r \in {read_from_offset(data, offset)} })

\* read_blocks returning the blocks read so far when a block cannot be read.
RECURSIVE ReadLoopPartial(_, _, _)
ReadLoopPartial(data, offset, acc) ==
  IF offset >= Len(data) THEN [ok |-> TRUE, blocks |-> acc]
  ELSE Only({ IF r.ok THEN ReadLoopPartial(data, r.offset, Append(acc, r.block))
              ELSE [ok |-> TRUE, blocks |-> acc]
              : r \in {read_from_offset(data, offset)} })

read_blocks_keeping_partial(data) == Only({ ReadLoopPartial(d, 0, << >>) : d \in {data} })

\* read_blocks(data): the list of blocks, or the exception raised.
read_blocks(data) == Only({ ReadLoop(d, 0, << >>) : d \in {data} })

\* decrypt refusing a file whose hash is wrong.
decrypt_checking_hash(data) ==
  IF ~get_is_hash_valid(data) THEN [ok |-> FALSE, err |-> "invalid hash"]
  ELSE read_blocks(crypt_static_xorpad_bytes(DropLast(data, SIZE_HASH)))

\* decrypt(data): the blocks of the unscrambled payload.
decrypt(data) == read_blocks(crypt_static_xorpad_bytes(DropLast(data, SIZE_HASH)))

\* The loop of get_decrypted_raw_data over blocks[i..], the bytes written so
\* far in acc: the encoded blocks, or the exception of the first block that
\* cannot be written, and the list of blocks after the calls.
RECURSIVE WriteLoop(_, _, _)
WriteLoop(blocks, i, acc) ==
  IF i > Len(blocks) THEN [ok |-> TRUE, out |-> acc, blocks |-> blocks]
  ELSE Only({ IF w.ok THEN WriteLoop([blocks EXCEPT ![i] = w.self], i + 1, acc \o w.out)
              ELSE [ok |-> FALSE, err |-> w.err, blocks |-> [blocks EXCEPT ![i] = w.self]]
              : w \in {write_block(blocks[i], TRUE)} })

\* get_decrypted_raw_data without the SIZE_HASH placeholder bytes behind the blocks.
get_decrypted_raw_data_no_placeholder(blocks) == WriteLoop(blocks, 1, << >>)

\* get_decrypted_raw_data(blocks): the encoded blocks followed by SIZE_HASH
\* zero bytes.
get_decrypted_raw_data(blocks) ==
  Only({ IF w.ok THEN [ok |-> TRUE, out |-> w.out \o Zeros(SIZE_HASH), blocks |-> w.blocks] ELSE w
         : w \in {WriteLoop(blocks, 1, << >>)} })

\* encrypt hashing the payload before it is scrambled.
encrypt_hash_before_scramble(blocks) ==
  Only({ IF ~result.ok THEN [ok |-> FALSE, err |-> result.err, blocks |-> result.blocks]
         ELSE Only({ [ok |-> TRUE, out |-> crypt_static_xorpad_bytes(plain) \o compute_hash(plain),
                      blocks |-> result.blocks]
                     : plain \in {DropLast(result.out, SIZE_HASH)} })
         : result \in {get_decrypted_raw_data(blocks)} })

\* encrypt(blocks): the scrambled payload followed by its hash.
encrypt(blocks) ==
  Only({ IF ~result.ok THEN [ok |-> FALSE, err |-> result.err, blocks |-> result.blocks]
         ELSE Only({ [ok |-> TRUE, out |-> payload \o compute_hash(payload), blocks |-> result.blocks]
                     : payload \in {crypt_static_xorpad_bytes(DropLast(result.out, SIZE_HASH))} })
         : result \in {get_decrypted_raw_data(blocks)} })

---------------------------------------------------------------------------
(* fnvhash.py: FnvHash                                                     *)

\* A Python str is a record [kind |-> "str", chars]: its code points in order;
\* a bytes object a record [kind |-> "bytes", bytes].
StrVal(chars) == [kind |-> "str", chars |-> chars]

BytesVal(bytes) == [kind |-> "bytes", bytes |-> bytes]

\* 0x01000193 and 0x811C9DC5 as 32-bit words.
K_FNV_PRIME_32 == << 403, 256 >>
K_OFFSET_BASIS_32 == << 40389, 33052 >>

\* The UTF-8 bytes of one code point (surrogates, which encode() refuses, left
\* aside).
EncodeUtf8Char(c) ==
  IF c < 128 THEN << c >>
  ELSE IF c < 2048 THEN << 192 + (c \div 64), 128 + (c % 64) >>
  ELSE IF c < 65536
  THEN << 224 + (c \div 4096), 128 + ((c \div 64) % 64), 128 + (c % 64) >>
  ELSE << 240 + (c \div 262144), 128 + ((c \div 4096) % 64),
          128 + ((c \div 64) % 64), 128 + (c % 64) >>

\* input_data.encode('utf-8').
RECURSIVE EncodeUtf8(_)
EncodeUtf8(chars) ==
  IF chars = << >> THEN << >>
  ELSE EncodeUtf8Char(Head(chars)) \o EncodeUtf8(Tail(chars))

\* hash_val ^= byte; hash_val = (hash_val * K_FNV_PRIME_32) & 0xFFFFFFFF, with
\* the 16-bit halves of the prime, most significant first, in place of the prime.
FnvRoundBigEndianPrime(hash_val, byte) ==
  Only({ << (x * K_FNV_PRIME_32[2]) % 65536,
            (((x * K_FNV_PRIME_32[2]) \div 65536) + x * K_FNV_PRIME_32[1]
               + h[2] * K_FNV_PRIME_32[2]) % 65536 >>
         : x \in {BitXor(hash_val[1], byte)}, h \in {hash_val} })

\* hash_val ^= byte; hash_val = (hash_val * K_FNV_PRIME_32) & 0xFFFFFFFF: the
\* product modulo 2^32, computed on the 16-bit halves.
FnvRound(hash_val, byte) ==
  Only({ << (x * K_FNV_PRIME_32[1]) % 65536,
            (((x * K_FNV_PRIME_32[1]) \div 65536) + x * K_FNV_PRIME_32[2]
               + h[2] * K_FNV_PRIME_32[1]) % 65536 >>
         : x \in {BitXor(hash_val[1], byte)}, h \in {hash_val} })

\* The loop "for byte in input_data" from position i on.
RECURSIVE FnvLoop(_, _, _)
FnvLoop(bytes, i, hash_val) ==
  IF i > Len(bytes) THEN hash_val
  ELSE Only({ FnvLoop(bytes, i + 1, h) : h \in {FnvRound(hash_val, bytes[i])} })

\* FnvHash.hash_fnv1a_32(input_data) of a str or of bytes, with the default
\* hash_val.
hash_fnv1a_32(input_data) ==
  Only({ FnvLoop(bytes, 1, K_OFFSET_BASIS_32)
         : bytes \in {IF input_data.kind = "str" THEN EncodeUtf8(input_data.chars)
                      ELSE input_data.bytes} })

---------------------------------------------------------------------------
(* hashdb.py: HashDB                                                       *)

\* A member of the enum HashDBKeys: its name and its value, an int.
HashDBKeysMember(name, value) == [kind |-> "HashDBKeys", name |-> name, value |-> value]

\* The Python int of a 32-bit word.
IntOfWord(w) == IntOfBytes(pack_u32(w))

HexChars == << "0", "1", "2", "3", "4", "5", "6", "7",
               "8", "9", "A", "B", "C", "D", "E", "F" >>

\* f"{value:X}" of a non-negative int: its hexadecimal digits, most significant
\* first, "0" for zero.
HexDigits(mag) ==
  LET all == [i \in 1..(2 * Len(mag)) |->
                LET byte == mag[Len(mag) - ((i - 1) \div 2)]
                IN HexChars[(IF i % 2 = 1 THEN byte \div 16 ELSE byte % 16) + 1]]
  IN IF mag = << >> THEN << "0" >>
     ELSE IF all[1] = "0" THEN Tail(all) ELSE all

\* f"{value:08x}": the rendering in lower case, as '08x' would give it.
Format08x(value) ==
  LET lower == [c \in {"0", "1", "2", "3", "4", "5", "6", "7", "8", "9"} |-> c]
                 @@ ("A" :> "a") @@ ("B" :> "b") @@ ("C" :> "c")
                 @@ ("D" :> "d") @@ ("E" :> "e") @@ ("F" :> "f")
      digits == HexDigits(value.mag)
      sign == IF value.neg THEN << "-" >> ELSE << >>
      fill == 8 - Len(sign) - Len(digits)
  IN sign \o [i \in 1..(IF fill > 0 THEN fill ELSE 0) |-> "0"]
          \o [i \in 1..Len(digits) |-> lower[digits[i]]]

\* f"{value:08X}": a string of characters, the sign first, then zeros up to a
\* width of 8, then the upper-case digits.
Format08X(value) ==
  LET digits == HexDigits(value.mag)
      sign == IF value.neg THEN << "-" >> ELSE << >>
      fill == 8 - Len(sign) - Len(digits)
  IN sign \o [i \in 1..(IF fill > 0 THEN fill ELSE 0) |-> "0"] \o digits

\* The loop of HashDB.__init__ from block i on: self.db[f"{block.key:08X}"] =
\* block, the dict holding the position of the block in blocks.
RECURSIVE InitLoopKeepingFirst(_, _, _)
InitLoopKeepingFirst(blocks, i, dict) ==
  IF i > Len(blocks) THEN dict
  ELSE Only({ InitLoopKeepingFirst(blocks, i + 1,
                                   IF item \in DOMAIN dict THEN dict ELSE (item :> i) @@ dict)
              : item \in {Format08X(IntOfWord(blocks[i].key))} })

\* HashDB(blocks) keeping the first block of a key where the code keeps the last.
HashDB_keeping_first(blocks) ==
  [db |-> InitLoopKeepingFirst(blocks, 1, << >>), blocks |-> blocks]

RECURSIVE InitLoop(_, _, _)
InitLoop(blocks, i, dict) ==
  IF i > Len(blocks) THEN dict
  ELSE Only({ InitLoop(blocks, i + 1, (item :> i) @@ dict)
              : item \in {Format08X(IntOfWord(blocks[i].key))} })

\* HashDB(blocks): self.db and self.blocks.
HashDB(blocks) == [db |-> InitLoop(blocks, 1, << >>), blocks |-> blocks]

\* The dict key __getitem__ makes of its argument, or TypeError for an argument
\* that is no int, no HashDBKeys member and no str.
LookupKey(item) ==
  IF item.kind = "int" THEN [ok |-> TRUE, key |-> Format08X(item)]
  ELSE IF item.kind = "HashDBKeys" THEN [ok |-> TRUE, key |-> Format08X(item.value)]
  ELSE IF item.kind = "str"
  THEN [ok |-> TRUE, key |-> Format08X(IntOfWord(hash_fnv1a_32(item)))]
  ELSE [ok |-> FALSE, err |-> "TypeError"]

\* HashDB.__getitem__ answering None for a key that is not there.
getitem_none_for_missing(self, item) ==
  Only({ IF ~k.ok THEN [ok |-> FALSE, err |-> k.err]
         ELSE IF k.key \notin DOMAIN self.db THEN [ok |-> TRUE, err |-> "", at |-> 0]
         ELSE [ok |-> TRUE, err |-> "", at |-> self.db[k.key]]
         : k \in {LookupKey(item)} })

\* HashDB.__getitem__ returning the first block of self.blocks that carries the
\* key where the code returns what the dict holds.
getitem_first_carrier(self, item) ==
  Only({ IF ~k.ok THEN [ok |-> FALSE, err |-> k.err]
         ELSE IF k.key \notin DOMAIN self.db THEN [ok |-> FALSE, err |-> "KeyError"]
         ELSE [ok |-> TRUE, err |-> "",
               at |-> CHOOSE i \in 1..Len(self.blocks) :
                        /\ Format08X(IntOfWord(self.blocks[i].key)) = k.key
                        /\ \A m \in 1..(i - 1) :
                             Format08X(IntOfWord(self.blocks[m].key)) # k.key]
         : k \in {LookupKey(item)} })

\* HashDB.__getitem__(item): the position in blocks of the block returned.
getitem(self, item) ==
  Only({ IF ~k.ok THEN [ok |-> FALSE, err |-> k.err]
         ELSE IF k.key \notin DOMAIN self.db THEN [ok |-> FALSE, err |-> "KeyError"]
         ELSE [ok |-> TRUE, err |-> "", at |-> self.db[k.key]]
         : k \in {LookupKey(item)} })

\* A Python bool.
BoolVal(b) == [kind |-> "bool", val |-> b]

\* The code points of a dict key, a text of hexadecimal digits.
KeyChars(key) ==
  [i \in 1..Len(key) |->
     IF key[i] = "-" THEN 45
     ELSE LET d == (CHOOSE j \in 1..16 : HexChars[j] = key[i]) - 1
          IN IF d < 10 THEN 48 + d ELSE 55 + d]

\* HashDB.__contains__(item): item in self.db, the argument compared as it is
\* with the keys of the dict, which are strs; a str equals a key when it has
\* the same characters, a value of another type equals none.
contains(self, item) ==
  IF item.kind = "str"
  THEN \E key \in DOMAIN self.db : KeyChars(key) = item.chars
  ELSE FALSE

\* HashDB.__len__().
hashdb_len(self) == Cardinality(DOMAIN self.db)

\* HashDB.__setitem__ without the call of set_value: the value is packed into
\* the payload of the block whatever its type, as UINT32 where it has no value.
setitem_unchecked(self, key, value) ==
  IF key.kind \notin {"int", "str", "bytes"}
  THEN [ok |-> FALSE, err |-> "TypeError", self |-> self]
  ELSE Only({
         IF item \notin DOMAIN self.db THEN [ok |-> FALSE, err |-> "KeyError", self |-> self]
         ELSE Only({ [ok |-> r.ok, err |-> r.err,
                      self |-> [self EXCEPT !.blocks[self.db[item]].raw = r.data]]
                     : r \in { type_set_value(IF has_value(b) THEN b.type ELSE UINT32,
                                              b.raw, value)
                              : b \in {self.blocks[self.db[item]]} } })
         : item \in {IF key.kind = "int" THEN Format08X(key)
                     ELSE Format08X(IntOfWord(hash_fnv1a_32(key)))} })

\* HashDB.__setitem__(key, value): the HashDB afterwards. A key that is no int
\* is hashed as a name; one that is no str and no bytes either cannot be
\* iterated over.
setitem(self, key, value) ==
  IF key.kind \notin {"int", "str", "bytes"}
  THEN [ok |-> FALSE, err |-> "TypeError", self |-> self]
  ELSE Only({
         IF item \notin DOMAIN self.db THEN [ok |-> FALSE, err |-> "KeyError", self |-> self]
         ELSE Only({ [ok |-> r.ok, err |-> r.err,
                      self |-> [self EXCEPT !.blocks[self.db[item]] = r.block]]
                     : r \in {set_value(self.blocks[self.db[item]], value)} })
         : item \in {IF key.kind = "int" THEN Format08X(key)
                     ELSE Format08X(IntOfWord(hash_fnv1a_32(key)))} })

---------------------------------------------------------------------------
(* Inputs: the blocks, containers and files the operations are applied to  *)

\* The longest container drawn, the bit flips applied to the file, and the
\* length of the long object payload (longer than the scrambling period).
MaxBlocks == 2
MaxFlips == 1
LongLen == 130

KeyA == << 22136, 4660 >>
KeyB == << 0, 0 >>
KeyC == << 65535, 65535 >>
KeyD == << 1, 32768 >>

\* Blocks as decoding produces them, one of every shape.
LegalCatalogue ==
  << SCBlock(KeyA, OBJECT, [i \in 1..LongLen |-> (i * 7) % 256], NONE),
     SCBlock(KeyA, UINT32, << 1, 2, 3, 4 >>, NONE),
     SCBlock(KeyB, BOOL1, << >>, NONE),
     SCBlock(KeyC, ARRAY, << 1, 0, 2, 0 >>, UINT16),
     SCBlock(KeyA, OBJECT, << >>, NONE),
     SCBlock(KeyD, BOOL2, << >>, NONE),
     SCBlock(KeyD, ARRAY, << 0, 1, 5 >>, BOOL3),
     SCBlock(KeyB, DOUBLE, << 0, 0, 0, 0, 0, 0, 240, 63 >>, NONE),
     SCBlock(KeyA, BOOL3, << >>, NONE),
     SCBlock(KeyC, ARRAY, << >>, DOUBLE),
     SCBlock(KeyD, BYTE, << 255 >>, NONE),
     SCBlock(KeyA, INT16, << 0, 128 >>, NONE),
     SCBlock(KeyB, OBJECT, << 9, 8, 7 >>, NONE) >>

\* Blocks only explicit construction produces: an array without element type,
\* payloads whose length does not fit the type, an element type on a scalar,
\* and the type NONE.
OddCatalogue ==
  << SCBlock(KeyA, ARRAY, << 1, 2 >>, NONE),
     SCBlock(KeyA, UINT16, << 7 >>, NONE),
     SCBlock(KeyD, ARRAY, << 1, 2, 3 >>, UINT16),
     SCBlock(KeyB, BYTE, << 1 >>, UINT16),
     SCBlock(KeyC, NONE, << >>, NONE) >>

Catalogue == LegalCatalogue \o OddCatalogue

\* The n blocks of the catalogue from position i on, cyclically.
Window(i, n) == [j \in 1..n |-> Catalogue[((i + j - 2) % Len(Catalogue)) + 1]]

SampleContainers ==
  { Window(i, n) : i \in 1..Len(Catalogue), n \in 0..MaxBlocks }

\* A stored block given by its key and the plain bytes behind the key: the
\* plain bytes XORed with the key's keystream.
Stored(key, plain) == pack_u32(key) \o CryptLoop(plain, SCXorShift32(key))

\* A file: the stream scrambled, followed by its hash or by a wrong one.
Sealed(stream, good) ==
  LET payload == crypt_static_xorpad_bytes(stream)
  IN payload \o (IF good THEN compute_hash(payload) ELSE Zeros(SIZE_HASH))

\* Plain block bodies: type byte, then what the type asks for, or less, or junk.
PlainBool == << 1 >>
PlainU16 == << 9, 52, 18 >>
PlainObject == << 4, 2, 0, 0, 0, 7, 8 >>
PlainArray == << 5, 2, 0, 0, 0, 9, 1, 0, 2, 0 >>
PlainBool3Array == << 5, 3, 0, 0, 0, 3, 0, 1, 9 >>
PlainLong == << 4, LongLen, 0, 0, 0 >> \o [i \in 1..LongLen |-> (i * 3) % 256]
PlainGapTag == << 6 >>
PlainNoneTag == << 0, 1 >>
PlainObjectArray == << 5, 1, 0, 0, 0, 4, 1 >>
PlainShortU32 == << 10, 1, 2 >>
PlainHugeObject == << 4, 255, 255, 255, 255, 1 >>
PlainShortCount == << 5, 2, 0 >>

SampleStreams ==
  { << >>,
    Stored(KeyA, PlainBool),
    Stored(KeyC, PlainU16),
    Stored(KeyA, PlainObject) \o Stored(KeyB, PlainArray),
    Stored(KeyD, PlainBool3Array) \o Stored(KeyA, PlainBool),
    Stored(KeyA, PlainLong) \o Stored(KeyD, PlainU16) \o Stored(KeyD, PlainBool),
    Stored(KeyA, PlainGapTag),
    Stored(KeyB, PlainNoneTag),
    Stored(KeyA, PlainBool) \o Stored(KeyC, PlainObjectArray),
    Stored(KeyD, PlainShortU32),
    Stored(KeyA, PlainHugeObject),
    Stored(KeyB, PlainBool) \o Stored(KeyA, PlainShortCount),
    Stored(KeyC, PlainBool) \o << 1, 2 >> }

\* Files to read: sealed streams, streams with a wrong hash, and files shorter
\* than a hash.
SampleFiles ==
  { Sealed(s, TRUE) : s \in SampleStreams }
    \cup { Sealed(Stored(KeyA, PlainObject), FALSE), Sealed(<< >>, FALSE) }
    \cup { << 1, 2, 3 >>, [i \in 1..(SIZE_HASH - 1) |-> i] }

\* The byte offsets at which a file is tampered with: the type byte of its
\* first block, the last byte before the hash, and the last byte of the hash.
FlipOffsets(data) ==
  { o \in { 4, Len(data) - SIZE_HASH - 1, Len(data) - 1 } : o >= 0 /\ o < Len(data) }

\* The values of the bits of a byte.
ByteBits == {1, 2, 4, 8, 16, 32, 64, 128}

\* data with the bit of value mask of the byte at offset o flipped.
FlipBit(data, o, mask) == [data EXCEPT ![o + 1] = BitXor(data[o + 1], mask)]

---------------------------------------------------------------------------
(* The container pipeline: a file and a list of blocks in memory, and the  *)
(* operations of SwishCrypto between them                                  *)

VARIABLES
  file,     \* the bytes of the save file
  blocks,   \* the list of blocks in memory
  last,     \* the last operation: its name, outcome and the one before it
  before,   \* file and blocks as they were before the last operation
  flips,    \* the bit flips applied to the file so far
  blk,      \* a block whose methods are called
  pre,      \* that block before the last call
  call,     \* the last call: method, argument, outcome
  born,     \* that block as it was constructed
  buf,      \* a byte buffer handed to the decoder or to the scrambler
  made,     \* the blocks buf was encoded from, if it was
  cuts,     \* the bytes cut off the end of buf so far
  got,      \* the last call on buf: function, argument, outcome
  held,     \* the blocks a HashDB was built from (its attribute blocks)
  db,       \* the HashDB's dict: key rendering -> position in held of the block
  look,     \* the last call on the HashDB: method, arguments, outcome
  seed,     \* the seed two keystream generators were built from
  gens,     \* the two generators: counter and state of each
  emitted,  \* the bytes each generator has returned so far
  argv,     \* the command line of main.py and the input file it names
  pc,       \* the statement the command has reached
  raw_file, \* the bytes read from the input file
  mem_blocks,     \* the blocks decrypt returned, as edited since
  core,     \* the payload of the CoreData block before and after the edit
  modified_data,  \* the bytes encrypt returned
  output,   \* the output file: whether it was written, and its bytes
  steps,    \* the steps the command has taken, in order
  exit_status     \* how the command ended

codecVars == << file, blocks, last, before, flips >>
blockVars == << blk, pre, call, born >>
bufVars == << buf, made, cuts, got >>
indexVars == << held, db, look >>
keyVars == << seed, gens, emitted >>
mainVars == << argv, pc, raw_file, mem_blocks, core, modified_data, output, steps, exit_status >>
sideVars == << keyVars, mainVars >>
vars == << codecVars, blockVars, bufVars, indexVars, sideVars >>

NoRet == "none"

Op(name, ok, err, ret) ==
  [op |-> name, ok |-> ok, err |-> err, ret |-> ret,
   prev |-> [op |-> last.op, ok |-> last.ok]]

Snapshot == [file |-> file, blocks |-> blocks]

\* The variables of each part of the program while another part runs.
BlockIdle ==
  /\ blk = SCBlock(KeyB, BOOL1, << >>, NONE)
  /\ pre = blk
  /\ call = [op |-> "idle"]
  /\ born = blk

BufIdle ==
  /\ buf = << >>
  /\ made = << >>
  /\ cuts = 0
  /\ got = [op |-> "idle"]

IndexIdle ==
  /\ held = << >>
  /\ db = << >>
  /\ look = [op |-> "idle"]

KeyIdle ==
  /\ seed = << 0, 0 >>
  /\ gens = << SCXorShift32(seed), SCXorShift32(seed) >>
  /\ emitted = << << >>, << >> >>

MainIdle ==
  /\ argv = [op |-> "idle"]
  /\ pc = "idle"
  /\ raw_file = << >>
  /\ mem_blocks = << >>
  /\ core = [done |-> FALSE, before |-> << >>, after |-> << >>]
  /\ modified_data = << >>
  /\ output = [written |-> FALSE, bytes |-> << >>]
  /\ steps = << >>
  /\ exit_status = "running"

SideIdle == KeyIdle /\ MainIdle

CodecIdle ==
  /\ file = << >>
  /\ blocks = << >>
  /\ last = [op |-> "idle"]
  /\ before = [file |-> << >>, blocks |-> << >>]
  /\ flips = 0

Init ==
  /\ \/ blocks \in SampleContainers /\ file = << >>
     \/ file \in SampleFiles /\ blocks = << >>
  /\ last = [op |-> "start", ok |-> TRUE, err |-> "", ret |-> NoRet,
             prev |-> [op |-> "start", ok |-> TRUE]]
  /\ before = [file |-> file, blocks |-> blocks]
  /\ flips = 0
  /\ BlockIdle
  /\ BufIdle
  /\ IndexIdle
  /\ SideIdle

\* data = SwishCrypto.encrypt(blocks); the file is written when it returns.
Encrypt ==
  \E r \in {encrypt(blocks)} :
    /\ file' = IF r.ok THEN r.out ELSE file
    /\ blocks' = r.blocks
    /\ last' = Op("encrypt", r.ok, IF r.ok THEN "" ELSE r.err, NoRet)
    /\ before' = Snapshot
    /\ UNCHANGED << flips, blockVars, bufVars, indexVars, sideVars >>

\* blocks = SwishCrypto.decrypt(data).
Decrypt ==
  \E r \in {decrypt(file)} :
    /\ blocks' = IF r.ok THEN r.blocks ELSE blocks
    /\ last' = Op("decrypt", r.ok, IF r.ok THEN "" ELSE r.err, NoRet)
    /\ before' = Snapshot
    /\ UNCHANGED << file, flips, blockVars, bufVars, indexVars, sideVars >>

\* SwishCrypto.get_is_hash_valid(data).
CheckHash ==
  /\ last' = Op("get_is_hash_valid", TRUE, "", get_is_hash_valid(file))
  /\ before' = Snapshot
  /\ UNCHANGED << file, blocks, flips, blockVars, bufVars, indexVars, sideVars >>

\* One bit of the file changes on disk: the top bit of the byte at offset o.
Flip(o) ==
  /\ flips < MaxFlips
  /\ o \in FlipOffsets(file)
  /\ file' = FlipBit(file, o, 128)
  /\ flips' = flips + 1
  /\ last' = Op("flip", TRUE, "", NoRet)
  /\ before' = Snapshot
  /\ UNCHANGED << blocks, blockVars, bufVars, indexVars, sideVars >>

Next ==
  \/ Encrypt
  \/ Decrypt
  \/ CheckHash
  \/ \E o \in FlipOffsets(file) : Flip(o)

Spec == Init /\ [][Next]_vars

---------------------------------------------------------------------------
(* The methods of one SCBlock                                              *)

\* One block of every numeric tag, its payload as wide as the tag.
ScalarCatalogue ==
  << SCBlock(KeyA, BYTE, << 7 >>, NONE),
     SCBlock(KeyA, SBYTE, << 128 >>, NONE),
     SCBlock(KeyA, UINT16, << 1, 2 >>, NONE),
     SCBlock(KeyA, INT16, << 255, 255 >>, NONE),
     SCBlock(KeyA, UINT32, << 4, 3, 2, 1 >>, NONE),
     SCBlock(KeyA, INT32, << 0, 0, 0, 128 >>, NONE),
     SCBlock(KeyA, UINT64, << 1, 2, 3, 4, 5, 6, 7, 8 >>, NONE),
     SCBlock(KeyA, INT64, << 255, 255, 255, 255, 255, 255, 255, 127 >>, NONE),
     SCBlock(KeyA, SINGLE, << 0, 0, 128, 63 >>, NONE),
     SCBlock(KeyA, DOUBLE, << 0, 0, 0, 0, 0, 0, 0, 192 >>, NONE) >>

\* The blocks whose methods are called: the scalars above, the other shapes of
\* the catalogue, and scalars whose payload is shorter or longer than the tag.
SampleBlocks ==
  { ScalarCatalogue[i] : i \in 1..Len(ScalarCatalogue) }
    \cup { Catalogue[i] : i \in 2..Len(Catalogue) }
    \cup { SCBlock(KeyA, BYTE, << >>, NONE),
           SCBlock(KeyA, INT32, << 1, 2, 3 >>, NONE),
           SCBlock(KeyA, UINT16, << 1, 2, 3 >>, NONE) }

\* The byte strings handed to change_data.
SampleData ==
  { << >>, << 0 >>, << 255 >>, << 3, 4 >>, << 9, 9, 9 >>, << 255, 255, 255, 255 >>,
    << 8, 7, 6, 5, 4, 3, 2, 1 >> }

\* n bytes, all equal to low but the last, which is high (n >= 1).
Bytes(n, low, high) == [i \in 1..n |-> IF i < n THEN low ELSE high]

\* The ints at and just outside the ends of the n-byte formats: 0, 1, -1, the
\* unsigned maximum and one more, the signed maximum and one more, the signed
\* minimum and one less.
BoundaryInts(n) ==
  { IntVal(FALSE, << >>), IntVal(FALSE, << 1 >>), IntVal(TRUE, << 1 >>),
    IntVal(FALSE, Bytes(n, 255, 255)),
    IntVal(FALSE, Bytes(n + 1, 0, 1)),
    IntVal(FALSE, Bytes(n, 255, 127)),
    IntVal(FALSE, Bytes(n, 0, 128)),
    IntVal(TRUE, Bytes(n, 0, 128)),
    IntVal(TRUE, [Bytes(n, 0, 128) EXCEPT ![1] = @ + 1]) }

\* The values handed to set_value of a block: floats of the tag's own format
\* for a floating tag, else the boundary ints of the tag's width and a float.
SampleValues(b) ==
  IF b.type = SINGLE
  THEN { FloatVal("f", << 0, 0, 128, 63 >>), FloatVal("f", << 0, 0, 0, 128 >>) }
  ELSE IF b.type = DOUBLE
  THEN { FloatVal("d", << 0, 0, 0, 0, 0, 0, 240, 63 >>),
         FloatVal("d", << 1, 0, 0, 0, 0, 0, 0, 0 >>) }
  ELSE BoundaryInts(IF HasTypeSize(b.type) THEN get_type_size(b.type) ELSE 1)
         \cup { FloatVal("d", << 0, 0, 0, 0, 0, 0, 240, 63 >>) }

Call(name, arg, ok, err, ret) ==
  [op |-> name, arg |-> arg, ok |-> ok, err |-> err, ret |-> ret]

BlockInit ==
  /\ blk \in SampleBlocks
  /\ pre = blk
  /\ born = blk
  /\ call = Call("new", NoRet, TRUE, "", NoRet)
  /\ CodecIdle
  /\ BufIdle
  /\ IndexIdle
  /\ SideIdle

\* blk.change_data(v).
ChangeData(v) ==
  \E r \in {change_data(blk, v)} :
    /\ blk' = r.block
    /\ pre' = blk
    /\ call' = Call("change_data", v, r.ok, r.err, NoRet)
    /\ UNCHANGED << born, codecVars, bufVars, indexVars, sideVars >>

\* blk.change_boolean_type(t).
ChangeBooleanType(t) ==
  \E r \in {change_boolean_type(blk, t)} :
    /\ blk' = r.block
    /\ pre' = blk
    /\ call' = Call("change_boolean_type", t, r.ok, r.err, NoRet)
    /\ UNCHANGED << born, codecVars, bufVars, indexVars, sideVars >>

\* blk.has_value().
HasValue ==
  /\ call' = Call("has_value", NoRet, TRUE, "", has_value(blk))
  /\ pre' = blk
  /\ UNCHANGED << blk, born, codecVars, bufVars, indexVars, sideVars >>

\* blk.get_value().
GetValue ==
  \E r \in {get_value(blk)} :
    /\ blk' = r.block
    /\ pre' = blk
    /\ call' = Call("get_value", NoRet, r.ok, r.err, IF r.ok THEN r.val ELSE NoRet)
    /\ UNCHANGED << born, codecVars, bufVars, indexVars, sideVars >>

\* blk.set_value(x).
SetValue(x) ==
  \E r \in {set_value(blk, x)} :
    /\ blk' = r.block
    /\ pre' = blk
    /\ call' = Call("set_value", x, r.ok, r.err, NoRet)
    /\ UNCHANGED << born, codecVars, bufVars, indexVars, sideVars >>

\* blk.copy_from(other).
CopyFrom(other) ==
  \E r \in {copy_from(blk, other)} :
    /\ blk' = r.block
    /\ pre' = blk
    /\ call' = Call("copy_from", other, r.ok, r.err, NoRet)
    /\ UNCHANGED << born, codecVars, bufVars, indexVars, sideVars >>

\* blk.clone().
Clone ==
  /\ call' = Call("clone", NoRet, TRUE, "", clone(blk))
  /\ pre' = blk
  /\ UNCHANGED << blk, born, codecVars, bufVars, indexVars, sideVars >>

BlockNext ==
  \/ \E v \in SampleData : ChangeData(v)
  \/ \E t \in SCTypeCode : ChangeBooleanType(t)
  \/ HasValue
  \/ GetValue
  \/ \E x \in SampleValues(blk) : SetValue(x)
  \/ \E other \in SampleBlocks : CopyFrom(other)
  \/ Clone

SpecBlock == BlockInit /\ [][BlockNext]_vars

---------------------------------------------------------------------------
(* Properties of the container pipeline (specification Spec)               *)

\* A legal block: the payload length matches the type (0 for booleans, the
\* fixed width for scalars, any length for an object, a multiple of the
\* element size for an array) and sub_type is NONE except for arrays.
Legal(b) ==
  CASE b.type \in {BOOL1, BOOL2, BOOL3} -> Len(b.raw) = 0 /\ b.sub_type = NONE
    [] b.type = OBJECT -> b.sub_type = NONE
    [] b.type = ARRAY ->
         HasTypeSize(b.sub_type) /\ Len(b.raw) % get_type_size(b.sub_type) = 0
    [] b.type \in {BYTE, SBYTE, UINT16, INT16, UINT32, INT32, UINT64, INT64, SINGLE, DOUBLE} ->
         Len(b.raw) = get_type_size(b.type) /\ b.sub_type = NONE
    [] OTHER -> FALSE

LegalSequence(B) == \A i \in 1..Len(B) : Legal(B[i])

\* C1: decrypting what encrypt returned for a legal block sequence B succeeds
\* and returns a sequence of the same length whose i-th block equals B[i] in
\* key, type, sub_type and payload.
C1_DecryptOfEncrypt ==
  (/\ last.op = "decrypt"
   /\ last.prev.op = "encrypt"
   /\ last.prev.ok
   /\ LegalSequence(before.blocks))
    => /\ last.ok
       /\ Len(blocks) = Len(before.blocks)
       /\ \A i \in 1..Len(blocks) :
            /\ blocks[i].key = before.blocks[i].key
            /\ blocks[i].type = before.blocks[i].type
            /\ blocks[i].sub_type = before.blocks[i].sub_type
            /\ blocks[i].raw = before.blocks[i].raw

\* A legal sequence of MaxBlocks blocks, one of them the object whose payload
\* is longer than the scrambling period, has been encrypted and decrypted.
C1_Witness ==
  /\ last.op = "decrypt"
  /\ last.prev.op = "encrypt"
  /\ last.prev.ok
  /\ LegalSequence(before.blocks)
  /\ Len(before.blocks) = MaxBlocks
  /\ \E i \in 1..Len(before.blocks) :
       before.blocks[i].type = OBJECT /\ Len(before.blocks[i].raw) = LongLen
  /\ blocks = before.blocks

\* C2: encrypting the blocks decrypt returned for a file whose hash is valid
\* gives back the file, byte for byte.
C2_EncryptOfDecrypt ==
  (/\ last.op = "encrypt"
   /\ last.prev.op = "decrypt"
   /\ last.prev.ok
   /\ get_is_hash_valid(before.file))
    => /\ last.ok
       /\ file = before.file

\* A valid file of several blocks, longer than the scrambling period, has been
\* decrypted and encrypted again.
C2_Witness ==
  /\ last.op = "encrypt"
  /\ last.prev.op = "decrypt"
  /\ last.prev.ok
  /\ get_is_hash_valid(before.file)
  /\ Len(before.file) > SIZE_HASH + Len(STATIC_XORPAD)
  /\ Len(blocks) > 1
  /\ file = before.file

\* The encoded length of a block: key, type byte, the length word of an object
\* or the count word and element type of an array, and the payload.
EncodedLen(b) ==
  4 + 1 + (IF b.type = OBJECT THEN 4 ELSE IF b.type = ARRAY THEN 5 ELSE 0) + Len(b.raw)

RECURSIVE SumEncodedLen(_, _)
SumEncodedLen(B, n) == IF n = 0 THEN 0 ELSE SumEncodedLen(B, n - 1) + EncodedLen(B[n])

\* C3: the buffer encrypt returns has length 32 plus the sum of the blocks'
\* encoded lengths, its last 32 bytes are the digest of intro, the bytes before
\* them and outro, and get_is_hash_valid accepts it.
C3_EncryptSealsFile ==
  (last.op = "encrypt" /\ last.ok)
    => /\ Len(file) = 32 + SumEncodedLen(before.blocks, Len(before.blocks))
       /\ SubSeq(file, Len(file) - 31, Len(file))
            = Sha256Digest(INTRO_HASH_BYTES \o SubSeq(file, 1, Len(file) - 32)
                             \o OUTRO_HASH_BYTES)
       /\ get_is_hash_valid(file)

\* The empty sequence has been encrypted: the file is its hash alone.
C3_Witness ==
  /\ last.op = "encrypt"
  /\ last.ok
  /\ before.blocks = << >>
  /\ Len(file) = 32
  /\ get_is_hash_valid(file)

\* C4: get_is_hash_valid returns false for a file shorter than 32 bytes, and
\* for a longer one true exactly when its last 32 bytes are the digest of
\* intro, the bytes before them and outro.
C4_HashValidity ==
  (last.op = "get_is_hash_valid")
    => last.ret = (/\ Len(file) >= 32
                   /\ SubSeq(file, Len(file) - 31, Len(file))
                        = Sha256Digest(INTRO_HASH_BYTES \o SubSeq(file, 1, Len(file) - 32)
                                         \o OUTRO_HASH_BYTES))

\* A file with blocks in it was checked and accepted.
C4_Witness ==
  /\ last.op = "get_is_hash_valid"
  /\ last.ret = TRUE
  /\ Len(file) > 32

\* C5: a file that get_is_hash_valid accepts is refused once any single bit of
\* it is flipped, in the payload or in the trailing 32 bytes (the digest being
\* one that tells apart inputs differing in one bit).
C5_BitFlipInvalidates ==
  (last.op = "get_is_hash_valid" /\ last.ret = TRUE)
    => \A o \in 0..(Len(file) - 1), mask \in ByteBits :
         ~get_is_hash_valid(FlipBit(file, o, mask))

\* A file with blocks in it was accepted, and is refused with a bit of its
\* payload flipped and with a bit of its hash flipped.
C5_Witness ==
  /\ last.op = "get_is_hash_valid"
  /\ last.ret = TRUE
  /\ Len(file) > SIZE_HASH + 4
  /\ ~get_is_hash_valid(FlipBit(file, Len(file) - SIZE_HASH - 1, 1))
  /\ ~get_is_hash_valid(FlipBit(file, Len(file) - 1, 64))

\* The last 32 bytes a file may carry instead of its own.
SampleTails ==
  { [i \in 1..SIZE_HASH |-> 0], [i \in 1..SIZE_HASH |-> 255], [i \in 1..SIZE_HASH |-> i] }

\* data with its last 32 bytes (all of them, if fewer) taken from tail.
ReplaceTail(data, tail) ==
  [i \in 1..Len(data) |->
     IF i > Len(data) - SIZE_HASH THEN tail[i - (Len(data) - SIZE_HASH)] ELSE data[i]]

\* C6: decrypt gives the same outcome (the same blocks, or failure) for any
\* file of the same length that differs from the one decrypted only in its
\* last 32 bytes.
C6_DecryptIgnoresTail ==
  (last.op = "decrypt")
    => \A tail \in SampleTails :
         \E r \in {decrypt(ReplaceTail(file, tail))} :
           /\ r.ok = last.ok
           /\ r.ok => r.blocks = blocks
           /\ ~r.ok => r.err = last.err

\* A file whose hash is wrong, its tail having been tampered with, was
\* decrypted into blocks.
C6_Witness ==
  /\ last.op = "decrypt"
  /\ last.ok
  /\ Len(blocks) > 0
  /\ Len(file) > SIZE_HASH
  /\ flips > 0
  /\ ~get_is_hash_valid(file)

---------------------------------------------------------------------------
(* Properties of the block methods (specification SpecBlock)               *)

\* C7: change_data(v) with len(v) different from the payload's length fails
\* and leaves key, type, sub_type and payload unchanged; with the same length
\* it succeeds, the payload is v afterwards, key, type and sub_type are
\* unchanged, and get_value of a scalar block decodes v.
C7_ChangeData ==
  (call.op = "change_data")
    => IF Len(call.arg) # Len(pre.raw)
       THEN /\ ~call.ok
            /\ blk = pre
       ELSE /\ call.ok
            /\ blk.raw = call.arg
            /\ blk.key = pre.key
            /\ blk.type = pre.type
            /\ blk.sub_type = pre.sub_type
            /\ (has_value(blk) /\ Len(call.arg) >= get_type_size(blk.type))
                 => /\ get_value(blk).ok
                    /\ get_value(blk).val = type_get_value(blk.type, call.arg).val

\* A scalar block's payload was replaced by different bytes of the same length.
C7_Witness ==
  /\ call.op = "change_data"
  /\ call.ok
  /\ blk.type = UINT32
  /\ Len(blk.raw) = get_type_size(blk.type)
  /\ blk.raw # pre.raw
  /\ get_value(blk).ok

\* C8: change_boolean_type(t) succeeds exactly when the block's type and t are
\* both among BOOL1 and BOOL2; then the type becomes t and the payload is
\* untouched. In every other case it fails, type and payload unchanged.
C8_ChangeBooleanType ==
  (call.op = "change_boolean_type")
    => IF pre.type \in {BOOL1, BOOL2} /\ call.arg \in {BOOL1, BOOL2}
       THEN /\ call.ok
            /\ blk.type = call.arg
            /\ blk.raw = pre.raw
            /\ blk.raw = << >>
       ELSE /\ ~call.ok
            /\ blk.type = pre.type
            /\ blk.raw = pre.raw

\* A BOOL1 block became BOOL2.
C8_Witness ==
  /\ call.op = "change_boolean_type"
  /\ call.ok
  /\ pre.type = BOOL1
  /\ blk.type = BOOL2

\* C9: has_value() is true exactly for the ten numeric tags; on a block for
\* which it is false get_value and set_value fail, and the failed set_value
\* leaves the payload unchanged.
C9_HasValue ==
  /\ (call.op = "has_value")
       => call.ret = (blk.type \in {BYTE, SBYTE, UINT16, INT16, UINT32, INT32,
                                    UINT64, INT64, SINGLE, DOUBLE})
  /\ (call.op \in {"get_value", "set_value"} /\ ~has_value(pre))
       => /\ ~call.ok
          /\ blk.raw = pre.raw

\* set_value was refused on an object with a payload.
C9_Witness ==
  /\ call.op = "set_value"
  /\ pre.type = OBJECT
  /\ Len(pre.raw) > 0
  /\ ~call.ok
  /\ blk.raw = pre.raw

\* x modulo 2^(8n) as the n-byte format reads it: the low n bytes of the
\* two's complement of x, decoded as a signed or an unsigned int.
Wrap(x, n, signed) ==
  LET low == PadTo(SubSeq(x.mag, 1, IF Len(x.mag) < n THEN Len(x.mag) ELSE n), n)
      bytes == IF x.neg THEN TwosNegate(low) ELSE low
  IN IF signed THEN UnpackSigned(bytes) ELSE UnpackUnsigned(bytes)

\* C10: on a block of an integer tag of n bytes, set_value(x) succeeds for x in
\* the tag's range and for x just outside it, and get_value() then returns x,
\* wrapped modulo 2^(8n) into the tag's range.
C10_SetValueWraps ==
  (/\ call.op = "set_value"
   /\ pre.type \in {BYTE, SBYTE, UINT16, INT16, UINT32, INT32, UINT64, INT64}
   /\ Len(pre.raw) = get_type_size(pre.type)
   /\ call.arg.kind = "int")
    => /\ call.ok
       /\ get_value(blk).ok
       /\ get_value(blk).val = Wrap(call.arg, get_type_size(pre.type), IsSigned(pre.type))

---------------------------------------------------------------------------
(* Decoding byte buffers: read_blocks and read_from_offset on encoded      *)
(* block sequences cut at every length, and on blocks with every type byte *)
(* and every array element type                                            *)

\* The bytes cut off the end of a buffer, and the longest buffer scrambled.
MaxCuts == 1
MaxPadLen == 256

\* The n legal blocks of the catalogue from position i on, cyclically.
LegalWindow(i, n) ==
  [j \in 1..n |-> LegalCatalogue[((i + j - 2) % Len(LegalCatalogue)) + 1]]

EncodedContainers ==
  { LegalWindow(i, n) : i \in 1..Len(LegalCatalogue), n \in 0..MaxBlocks }

\* The encoded blocks of B as get_decrypted_raw_data writes them.
Encoded(B) == WriteLoop(B, 1, << >>).out

\* Plain bytes behind a type byte that every type can decode: an object of one
\* byte, an array of one BYTE, or a scalar of up to eight bytes.
Filler == << 1, 0, 0, 0, 8, 7, 7, 7, 7, 7, 7, 7 >>

\* A block body with each value of the type byte.
TagPlains == { << tag >> \o Filler : tag \in 0..255 }

\* The body of an array block: type byte, count n, element type byte sub and len
\* payload bytes, most of them outside {0, 1, 2}.
ArrayPlain(n, sub, len) ==
  << ARRAY, n, 0, 0, 0, sub >> \o [i \in 1..len |-> (i * 37) % 256]

\* The payload length an array of n elements of type sub is given: n times the
\* element size, one byte an element for a sub that has no size.
PayloadLen(n, sub) == n * (IF HasTypeSize(sub) THEN get_type_size(sub) ELSE 1)

\* Array bodies with each value of the element type byte and 0 to 2 elements,
\* a well-behaved tri-state array, and arrays whose count exceeds their bytes.
ArrayPlains ==
  { ArrayPlain(n, sub, PayloadLen(n, sub)) : n \in 0..2, sub \in 0..255 }
    \cup { << ARRAY, 2, 0, 0, 0, BOOL3, 0, 2 >>,
           << ARRAY, 3, 0, 0, 0, UINT32, 1, 2, 3, 4, 5 >>,
           << ARRAY, 0, 0, 1, 0, BYTE, 5 >>,
           << ARRAY, 0, 0, 0, 1, UINT16 >> }

\* What a buffer was made from: the blocks encoded, or the key and the plain
\* body of one block, the encoded bytes put before it and those put behind it.
Made(kind, B, key, plain, lead, trail) ==
  [kind |-> kind, blocks |-> B, key |-> key, plain |-> plain,
   lead |-> lead, trail |-> trail]

LeadBlocks == { << >>, Stored(KeyB, PlainBool) }
TrailBlocks == { << >>, Stored(KeyD, PlainU16) }

ReadInit ==
  /\ \/ \E B \in EncodedContainers : \E e \in {Encoded(B)} : \E p \in 0..Len(e) :
          /\ buf = SubSeq(e, 1, p)
          /\ made = Made("blocks", B, KeyB, << >>, << >>, << >>)
     \/ \E key \in {KeyA, KeyC} : \E plain \in TagPlains :
          /\ buf = Stored(key, plain)
          /\ made = Made("plain", << >>, key, plain, << >>, << >>)
     \/ \E plain \in ArrayPlains : \E lead \in LeadBlocks : \E trail \in TrailBlocks :
          /\ buf = lead \o Stored(KeyA, plain) \o trail
          /\ made = Made("plain", << >>, KeyA, plain, lead, trail)
  /\ cuts = 0
  /\ got = Call("new", NoRet, TRUE, "", NoRet)
  /\ CodecIdle
  /\ BlockIdle
  /\ IndexIdle
  /\ SideIdle

\* SwishCrypto.read_blocks(buf).
ReadBlocks ==
  \E r \in {read_blocks(buf)} :
    /\ got' = Call("read_blocks", NoRet, r.ok, IF r.ok THEN "" ELSE r.err,
                   IF r.ok THEN r.blocks ELSE NoRet)
    /\ UNCHANGED << buf, made, cuts, codecVars, blockVars, indexVars, sideVars >>

\* SCBlock.read_from_offset(buf, o).
ReadFromOffset(o) ==
  \E r \in {read_from_offset(buf, o)} :
    /\ got' = Call("read_from_offset", o, r.ok, IF r.ok THEN "" ELSE r.err,
                   IF r.ok THEN [block |-> r.block, offset |-> r.offset] ELSE NoRet)
    /\ UNCHANGED << buf, made, cuts, codecVars, blockVars, indexVars, sideVars >>

\* The buffer loses its last byte.
Truncate ==
  /\ cuts < MaxCuts
  /\ Len(buf) > 0
  /\ buf' = DropLast(buf, 1)
  /\ cuts' = cuts + 1
  /\ got' = Call("truncate", NoRet, TRUE, "", NoRet)
  /\ UNCHANGED << made, codecVars, blockVars, indexVars, sideVars >>

ReadNext ==
  \/ ReadBlocks
  \/ \E o \in {0, Len(made.lead)} : ReadFromOffset(o)
  \/ Truncate

SpecRead == ReadInit /\ [][ReadNext]_vars

---------------------------------------------------------------------------
(* Scrambling byte buffers: crypt_static_xorpad_bytes applied again and    *)
(* again to buffers of every length up to MaxPadLen                        *)

\* Buffers of n bytes: all zero, and a pattern running through the byte values.
SampleBuffers(n) == { Zeros(n), [i \in 1..n |-> (i * 5 + 3) % 256] }

XorpadInit ==
  /\ \E n \in 0..MaxPadLen : buf \in SampleBuffers(n)
  /\ made = << >>
  /\ cuts = 0
  /\ got = [op |-> "new", arg |-> << >>, again |-> FALSE, earlier |-> << >>]
  /\ CodecIdle
  /\ BlockIdle
  /\ IndexIdle
  /\ SideIdle

\* SwishCrypto.crypt_static_xorpad_bytes(buf), in place. The call record keeps
\* the buffer before the call and, when the call before was one too, the buffer
\* before that.
CryptStaticXorpad ==
  /\ buf' = crypt_static_xorpad_bytes(buf)
  /\ got' = [op |-> "crypt_static_xorpad_bytes", arg |-> buf,
             again |-> (got.op = "crypt_static_xorpad_bytes"), earlier |-> got.arg]
  /\ UNCHANGED << made, cuts, codecVars, blockVars, indexVars, sideVars >>

XorpadNext == CryptStaticXorpad

SpecXorpad == XorpadInit /\ [][XorpadNext]_vars

---------------------------------------------------------------------------
(* The keystream: two generators built from one seed, each asked for bytes *)
(* and for 32-bit words in any order                                       *)

\* The most bytes a generator is asked for.
MaxEmitted == 12

\* Seeds with no bit set, one bit set and every bit set, and keys of blocks.
SampleSeeds ==
  { << 0, 0 >>, << 1, 0 >>, << 0, 32768 >>, << 65535, 65535 >>, KeyA, KeyD,
    << 62814, 61043 >> }

KeyInit ==
  /\ seed \in SampleSeeds
  /\ gens = << SCXorShift32(seed), SCXorShift32(seed) >>
  /\ emitted = << << >>, << >> >>
  /\ CodecIdle
  /\ BlockIdle
  /\ BufIdle
  /\ IndexIdle
  /\ MainIdle

\* gens[g].next().
GenNext(g) ==
  /\ Len(emitted[g]) < MaxEmitted
  /\ \E r \in {xk_next(gens[g])} :
       /\ gens' = [gens EXCEPT ![g] = r.xk]
       /\ emitted' = [emitted EXCEPT ![g] = Append(emitted[g], r.val)]
  /\ UNCHANGED << seed, codecVars, blockVars, bufVars, indexVars, mainVars >>

\* gens[g].next32(): the word returned is kept as its four bytes, lowest first.
GenNext32(g) ==
  /\ Len(emitted[g]) + 4 <= MaxEmitted
  /\ \E r \in {xk_next32(gens[g])} :
       /\ gens' = [gens EXCEPT ![g] = r.xk]
       /\ emitted' = [emitted EXCEPT ![g] = emitted[g] \o pack_u32(r.val)]
  /\ UNCHANGED << seed, codecVars, blockVars, bufVars, indexVars, mainVars >>

KeyNext ==
  \/ \E g \in {1, 2} : GenNext(g)
  \/ \E g \in {1, 2} : GenNext32(g)

SpecKey == KeyInit /\ [][KeyNext]_vars

---------------------------------------------------------------------------
(* Properties of the decoder (specification SpecRead)                      *)

\* The number of leading blocks of B whose encodings fit into p bytes.
WholeBlocks(B, p) ==
  CHOOSE n \in 0..Len(B) :
    /\ SumEncodedLen(B, n) <= p
    /\ n < Len(B) => SumEncodedLen(B, n + 1) > p

\* The field of block b that is cut when only the first q bytes of its encoding
\* are there (0 < q < EncodedLen(b)), as the decoder's message names it.
MissingField(b, q) ==
  IF q < 4 THEN "Insufficient data for block key"
  ELSE IF q = 4 THEN "Insufficient data for block type"
  ELSE IF b.type = OBJECT
  THEN IF q < 9 THEN "Insufficient data for object length"
       ELSE "Insufficient data for object payload"
  ELSE IF b.type = ARRAY
  THEN IF q < 9 THEN "Insufficient data for array entry count"
       ELSE IF q = 9 THEN "Insufficient data for array sub-type"
       ELSE "Insufficient data for array payload"
  ELSE "Insufficient data for single value"

\* C11: read_blocks of a prefix of a well-formed encoded stream returns the
\* leading blocks when the prefix ends on a block boundary; otherwise it fails,
\* returning no list, with the error of the first field that is cut (key, type
\* byte, object length, array count, array sub-type or payload).
C11_TruncatedStream ==
  (got.op = "read_blocks" /\ made.kind = "blocks")
    => LET B == made.blocks
           p == Len(buf)
           n == WholeBlocks(B, p)
       IN IF SumEncodedLen(B, n) = p
          THEN got.ok /\ got.ret = SubSeq(B, 1, n)
          ELSE /\ ~got.ok
               /\ got.err = MissingField(B[n + 1], p - SumEncodedLen(B, n))

\* A stream of two blocks was cut inside the second, an array, just before its
\* element type, and read_blocks failed there although the first block is whole.
C11_Witness ==
  /\ got.op = "read_blocks"
  /\ made.kind = "blocks"
  /\ Len(made.blocks) = 2
  /\ made.blocks[2].type = ARRAY
  /\ Len(buf) = EncodedLen(made.blocks[1]) + 9
  /\ ~got.ok
  /\ got.err = "Insufficient data for array sub-type"

\* The element sizes: 1 for byte, sbyte and the tri-state boolean, 2 for the
\* 16-bit types, 4 for the 32-bit types and single, 8 for the 64-bit types and
\* double.
ElementSize(t) ==
  CASE t \in {BOOL3, BYTE, SBYTE} -> 1
    [] t \in {UINT16, INT16} -> 2
    [] t \in {UINT32, INT32, SINGLE} -> 4
    [] t \in {UINT64, INT64, DOUBLE} -> 8

ElementTags == {BOOL3, BYTE, UINT16, UINT32, UINT64, SBYTE, INT16, INT32, INT64, SINGLE, DOUBLE}

\* The count word of an array body.
PlainCount(plain) == plain[2] + 256 * plain[3] + 65536 * plain[4] + 16777216 * plain[5]

\* One block given by its plain body was read at its start.
ReadOfPlain ==
  /\ got.op = "read_from_offset"
  /\ made.kind = "plain"
  /\ got.arg = Len(made.lead)

\* C12: decoding an array block of count N and element type t from a buffer
\* that holds 4+1+4+1+N*size(t) bytes from the block's start on returns a
\* payload of N*size(t) bytes (the plain ones, when the body has that many) and
\* the offset behind them; from a buffer that holds fewer, one fewer in
\* particular, it fails.
C12_ArrayExtent ==
  (/\ ReadOfPlain
   /\ made.plain[1] = ARRAY
   /\ made.plain[6] \in ElementTags)
    => LET bytes == PlainCount(made.plain) * ElementSize(made.plain[6])
           start == Len(made.lead)
       IN IF Len(buf) >= start + 4 + 1 + 4 + 1 + bytes
          THEN /\ got.ok
               /\ Len(got.ret.block.raw) = bytes
               /\ Len(made.plain) = 6 + bytes
                    => got.ret.block.raw = SubSeq(made.plain, 7, 6 + bytes)
               /\ got.ret.offset = start + 4 + 1 + 4 + 1 + bytes
          ELSE ~got.ok

\* An array of two 32-bit elements behind another block lost its last byte,
\* and decoding it failed.
C12_Witness ==
  /\ ReadOfPlain
  /\ made.plain = ArrayPlain(2, UINT32, 8)
  /\ made.lead # << >>
  /\ made.trail = << >>
  /\ cuts = 1
  /\ Len(buf) = Len(made.lead) + 10 + 8 - 1
  /\ ~got.ok
  /\ got.err = "Insufficient data for array payload"

\* The fifteen type bytes a block may carry.
BlockTags == {BOOL1, BOOL2, BOOL3, OBJECT, ARRAY, BYTE, UINT16, UINT32, UINT64,
              SBYTE, INT16, INT32, INT64, SINGLE, DOUBLE}

\* C16: decoding a block whose decrypted type byte is none of the fifteen block
\* tags (0 and the gaps 6 and 7 included) fails, by read_from_offset and by
\* read_blocks, and returns no block.
C16_UnknownTagFails ==
  (/\ made.kind = "plain"
   /\ ReadOfPlain \/ got.op = "read_blocks"
   /\ made.plain[1] \notin BlockTags)
    => ~got.ok

\* A block whose type byte is 0 (NONE), all its bytes there, was refused.
C16_Witness ==
  /\ ReadOfPlain
  /\ made.plain[1] = NONE
  /\ cuts = 0
  /\ ~got.ok
  /\ got.err = "Unsupported type"

\* C17: an array block is decoded only when its decrypted element type is the
\* tri-state boolean or one of the ten scalar tags; with object, array, NONE,
\* BOOL1, BOOL2 or an unknown value there, decoding the block fails.
C17_ArrayElementType ==
  (/\ made.kind = "plain"
   /\ ReadOfPlain \/ got.op = "read_blocks"
   /\ made.plain[1] = ARRAY
   /\ made.plain[6] \notin ElementTags)
    => ~got.ok

\* An array without elements whose element type is BOOL2, all its bytes there,
\* was refused.
C17_Witness ==
  /\ ReadOfPlain
  /\ made.plain = ArrayPlain(0, BOOL2, 0)
  /\ cuts = 0
  /\ ~got.ok
  /\ got.err = "Unsupported type"

\* C18: an array of tri-state booleans, whatever its payload bytes, is decoded
\* and returned with exactly those bytes, and read_blocks goes on to the block
\* behind it.
C18_SanityCheckAccepts ==
  (/\ got.op = "read_blocks"
   /\ made.kind = "plain"
   /\ made.plain[1] = ARRAY
   /\ made.plain[6] = BOOL3
   /\ cuts = 0
   /\ Len(made.plain) = 6 + PlainCount(made.plain))
    => LET k == IF made.lead = << >> THEN 1 ELSE 2
       IN /\ got.ok
          /\ Len(got.ret) = k + (IF made.trail = << >> THEN 0 ELSE 1)
          /\ got.ret[k] = SCBlock(made.key, ARRAY, SubSeq(made.plain, 7, Len(made.plain)), BOOL3)
          /\ made.trail # << >> => got.ret[k + 1].type = UINT16

\* A tri-state array holding the bytes 37 and 74 was decoded, and the block
\* behind it too.
C18_Witness ==
  /\ got.op = "read_blocks"
  /\ made.kind = "plain"
  /\ made.plain = << ARRAY, 2, 0, 0, 0, BOOL3, 37, 74 >>
  /\ made.trail # << >>
  /\ cuts = 0
  /\ got.ok
  /\ Len(got.ret) >= 2
  /\ got.ret[Len(got.ret) - 1].raw = << 37, 74 >>
  /\ ensure_array_is_sane(BOOL3, << 37, 74 >>).printed = << 37, 74 >>

---------------------------------------------------------------------------
(* Properties of the scrambler (specification SpecXorpad)                  *)

\* C20: crypt_static_xorpad_bytes never changes the length of the buffer, and
\* applied a second time it restores the bytes the buffer had before the first.
C20_XorpadInvolution ==
  (got.op = "crypt_static_xorpad_bytes")
    => /\ Len(buf) = Len(got.arg)
       /\ got.again => buf = got.earlier

\* A buffer of 255 bytes was scrambled, which changed it, and scrambled again.
C20_Witness ==
  /\ got.op = "crypt_static_xorpad_bytes"
  /\ got.again
  /\ Len(buf) = 255
  /\ got.arg # buf
  /\ buf = got.earlier

---------------------------------------------------------------------------
(* Building a HashDB from a list of blocks, looking blocks up in it and    *)
(* assigning values through it                                             *)

\* The longest list of blocks a HashDB is built from.
MaxHeld == 3

\* FnvHash.hash_fnv1a_32("CoreData") = 0xEE73F55E and
\* FnvHash.hash_fnv1a_32("é") = 0x1E9DE8C1 as keys of blocks.
KeyCoreData == << 62814, 61043 >>
KeyEAcute == << 59585, 7837 >>

\* Blocks to index: keys that are hashes of names, keys carried by two blocks
\* of different types, and two blocks equal in every field.
IndexCatalogue ==
  << SCBlock(KeyCoreData, OBJECT, << 1, 2, 3 >>, NONE),
     SCBlock(KeyA, UINT32, << 1, 2, 3, 4 >>, NONE),
     SCBlock(KeyCoreData, UINT16, << 5, 6 >>, NONE),
     SCBlock(KeyA, BOOL1, << >>, NONE),
     SCBlock(KeyEAcute, BYTE, << 9 >>, NONE),
     SCBlock(KeyB, INT16, << 255, 255 >>, NONE),
     SCBlock(KeyB, INT16, << 255, 255 >>, NONE),
     SCBlock(KeyEAcute, SINGLE, << 0, 0, 128, 63 >>, NONE),
     SCBlock(KeyC, ARRAY, << 1, 0 >>, UINT16) >>

IndexContainers ==
  { [j \in 1..n |-> IndexCatalogue[((i + j - 2) % Len(IndexCatalogue)) + 1]]
    : i \in 1..Len(IndexCatalogue), n \in 0..MaxHeld }

\* The names looked up: "CoreData", "é", "a" and "".
SampleNames ==
  { StrVal(<< 67, 111, 114, 101, 68, 97, 116, 97 >>), StrVal(<< 233 >>),
    StrVal(<< 97 >>), StrVal(<< >>) }

\* The ints looked up: the keys of the catalogue, 7, -1 and 2^32.
SampleInts ==
  { IntOfWord(k) : k \in {KeyA, KeyB, KeyC, KeyCoreData, KeyEAcute} }
    \cup { IntVal(FALSE, << 7 >>), IntVal(TRUE, << 1 >>), IntVal(FALSE, << 0, 0, 0, 0, 1 >>) }

\* Members of HashDBKeys: named integer constants, one of them a key no block
\* of the catalogue carries.
SampleMembers ==
  { HashDBKeysMember("CoreData", IntOfWord(KeyCoreData)),
    HashDBKeysMember("Trainer", IntOfWord(KeyA)),
    HashDBKeysMember("Missing", IntVal(FALSE, << 7 >>)) }

\* Arguments of other types: a float, bytes and None.
SampleOthers ==
  { FloatVal("d", << 0, 0, 0, 0, 0, 0, 240, 63 >>), BytesVal(<< 97 >>),
    [kind |-> "NoneType"] }

\* The text "EE73F55E", which is how the dict writes the key of "CoreData".
NameOfDictKey == StrVal(<< 69, 69, 55, 51, 70, 53, 53, 69 >>)

LookupItems == SampleInts \cup SampleNames \cup SampleMembers \cup SampleOthers

\* The keys assigned through: ints and names, and bytes, which are hashed too.
AssignKeys ==
  { IntOfWord(KeyA), IntOfWord(KeyCoreData), IntOfWord(KeyB), IntVal(FALSE, << 7 >>),
    StrVal(<< 67, 111, 114, 101, 68, 97, 116, 97 >>), StrVal(<< 233 >>), StrVal(<< 97 >>),
    BytesVal(<< 233 >>) }

\* The values assigned: 7, -1 and the float 1.0 in both formats.
AssignValues ==
  { IntVal(FALSE, << 7 >>), IntVal(TRUE, << 1 >>),
    FloatVal("d", << 0, 0, 0, 0, 0, 0, 240, 63 >>), FloatVal("f", << 0, 0, 128, 63 >>) }

\* The values handed to hash_db[key] = value: all of them where the key leads to
\* no block or to one of an integer or non-scalar type, the floats of the
\* block's own format where it leads to a SINGLE or a DOUBLE.
AssignValuesFor(key) ==
  LET item == IF key.kind = "int" THEN Format08X(key)
              ELSE Format08X(IntOfWord(hash_fnv1a_32(key)))
  IN IF item \notin DOMAIN db THEN AssignValues
     ELSE IF ~IsFloat(held[db[item]].type) THEN AssignValues
     ELSE { v \in AssignValues : v.kind = "float" /\ v.fmt = FloatFmt(held[db[item]].type) }

\* No key and no value in a call that takes none.
NoItem == [kind |-> "NoneType"]

\* A call on the HashDB: method, key argument, value argument, outcome, the
\* position of the block returned, and the HashDB before the call.
IndexCall(name, arg, val, ok, err, at) ==
  [op |-> name, arg |-> arg, val |-> val, ok |-> ok, err |-> err, at |-> at,
   pre |-> [blocks |-> held, db |-> db]]

IndexInit ==
  /\ held \in IndexContainers
  /\ db = << >>
  /\ look = [op |-> "new"]
  /\ CodecIdle
  /\ BlockIdle
  /\ BufIdle
  /\ SideIdle

\* hash_db = HashDB(blocks).
Build ==
  /\ look.op = "new"
  /\ \E self \in {HashDB(held)} :
       /\ db' = self.db
       /\ held' = self.blocks
  /\ look' = IndexCall("HashDB", NoItem, NoItem, TRUE, "", 0)
  /\ UNCHANGED << codecVars, blockVars, bufVars, sideVars >>

\* hash_db[item].
GetItem(item) ==
  /\ look.op # "new"
  /\ \E r \in {getitem([db |-> db, blocks |-> held], item)} :
       look' = IndexCall("getitem", item, NoItem, r.ok, r.err, IF r.ok THEN r.at ELSE 0)
  /\ UNCHANGED << held, db, codecVars, blockVars, bufVars, sideVars >>

\* hash_db[key] = value.
SetItem(key, value) ==
  /\ look.op # "new"
  /\ \E r \in {setitem([db |-> db, blocks |-> held], key, value)} :
       /\ held' = r.self.blocks
       /\ db' = r.self.db
       /\ look' = IndexCall("setitem", key, value, r.ok, r.err, 0)
  /\ UNCHANGED << codecVars, blockVars, bufVars, sideVars >>

\* item in hash_db.
Contains(item) ==
  /\ look.op # "new"
  /\ look' = IndexCall("contains", item, BoolVal(contains([db |-> db, blocks |-> held], item)),
                       TRUE, "", 0)
  /\ UNCHANGED << held, db, codecVars, blockVars, bufVars, sideVars >>

\* The payloads written through a looked-up block: of lengths that blocks of
\* the catalogue have, and one of a length none has.
SamplePayloads == { << 0, 0 >>, << 7, 8, 9 >>, << 1, 1, 1, 1, 1 >> }

\* The arguments the block to edit is looked up by: keys two blocks carry, a
\* key one carries, a key none carries, and None.
EditItems ==
  { HashDBKeysMember("CoreData", IntOfWord(KeyCoreData)),
    HashDBKeysMember("Missing", IntVal(FALSE, << 7 >>)),
    IntOfWord(KeyA), StrVal(<< 233 >>), [kind |-> "NoneType"] }

\* block = hash_db[item]; block.change_data(value): main.py's edit of the
\* CoreData block, for any key and payload. The block looked up is an element
\* of the list the HashDB was built from.
ChangeLooked(item, value) ==
  /\ look.op # "new"
  /\ \E g \in {getitem([db |-> db, blocks |-> held], item)} :
       IF ~g.ok
       THEN /\ look' = IndexCall("change_data", item, BytesVal(value), FALSE, g.err, 0)
            /\ UNCHANGED held
       ELSE \E r \in {change_data(held[g.at], value)} :
              /\ held' = [held EXCEPT ![g.at] = r.block]
              /\ look' = IndexCall("change_data", item, BytesVal(value), r.ok, r.err, g.at)
  /\ UNCHANGED << db, codecVars, blockVars, bufVars, sideVars >>

IndexNext ==
  \/ Build
  \/ \E item \in LookupItems : GetItem(item)
  \/ \E item \in LookupItems \cup {NameOfDictKey} : Contains(item)
  \/ \E item \in EditItems : \E value \in SamplePayloads : ChangeLooked(item, value)
  \/ \E key \in AssignKeys : \E value \in AssignValuesFor(key) : SetItem(key, value)

SpecIndex == IndexInit /\ [][IndexNext]_vars

---------------------------------------------------------------------------
(* Properties of the index (specification SpecIndex)                       *)

\* The 8-hex-digit upper-case rendering of a 32-bit word.
Hex8(w) ==
  [i \in 1..8 |->
     HexChars[((IF i <= 4 THEN w[2] \div (16 ^ (4 - i)) ELSE w[1] \div (16 ^ (8 - i))) % 16) + 1]]

\* The position of the last block of B that carries key k.
LastWithKey(B, k) ==
  CHOOSE j \in 1..Len(B) : B[j].key = k /\ \A m \in (j + 1)..Len(B) : B[m].key # k

\* The HashDB as the variables hold it.
TheIndex == [db |-> db, blocks |-> held]

\* C13: a HashDB built from a block sequence maps each key to the last block of
\* the sequence that carries it: the dict's keys are the 8-hex-digit upper-case
\* renderings of the blocks' keys, lookup of a key returns that last block, and
\* len() is the number of distinct keys.
C13_IndexOfLast ==
  (look.op = "HashDB")
    => /\ held = look.pre.blocks
       /\ DOMAIN db = { Hex8(held[i].key) : i \in 1..Len(held) }
       /\ \A i \in 1..Len(held) :
            /\ db[Hex8(held[i].key)] = LastWithKey(held, held[i].key)
            /\ getitem(TheIndex, IntOfWord(held[i].key))
                 = [ok |-> TRUE, err |-> "", at |-> LastWithKey(held, held[i].key)]
       /\ hashdb_len(TheIndex) = Cardinality({ held[i].key : i \in 1..Len(held) })

\* A HashDB was built from three blocks, the first and the third, different
\* blocks, carrying the same key.
C13_Witness ==
  /\ look.op = "HashDB"
  /\ Len(held) = 3
  /\ held[1].key = held[3].key
  /\ held[1] # held[3]
  /\ db[Hex8(held[1].key)] = 3
  /\ hashdb_len(TheIndex) = 2

\* FNV-1a on 32 bits as the claim words it: from the offset basis 0x811C9DC5,
\* per byte h := ((h XOR byte) * 0x01000193) mod 2^32, the product taken as
\* h * 2^24 + h * 0x193.
RECURSIVE Fnv1a32(_, _)
Fnv1a32(bytes, h) ==
  IF bytes = << >> THEN h
  ELSE LET lo == BitXor(h[1], Head(bytes))
           low == lo * 403
           high == h[2] * 403 + (low \div 65536) + (lo % 256) * 256
       IN Fnv1a32(Tail(bytes), << low % 65536, high % 65536 >>)

\* Whether a lookup argument denotes a 32-bit key, and the key it denotes: an
\* int in 0..2^32-1 itself, a HashDBKeys member its value, a string the FNV-1a
\* hash of its UTF-8 bytes.
DenotesKey(item) ==
  \/ item.kind = "int" /\ ~item.neg /\ Len(item.mag) <= 4
  \/ item.kind = "HashDBKeys"
  \/ item.kind = "str"

KeyDenoted(item) ==
  LET word(v) == LET m == PadTo(v.mag, 4) IN << m[1] + 256 * m[2], m[3] + 256 * m[4] >>
  IN CASE item.kind = "int" -> word(item)
       [] item.kind = "HashDBKeys" -> word(item.value)
       [] item.kind = "str" -> Fnv1a32(EncodeUtf8(item.chars), << 40389, 33052 >>)

\* C14: lookup by an integer, by a HashDBKeys member and by a string that
\* denote the same 32-bit key return the same block, or all miss.
C14_LookupsAgree ==
  (look.op = "getitem" /\ DenotesKey(look.arg))
    => \A other \in LookupItems :
         (DenotesKey(other) /\ KeyDenoted(other) = KeyDenoted(look.arg))
           => LET r == getitem(TheIndex, other)
              IN /\ r.ok = look.ok
                 /\ r.ok => r.at = look.at
                 /\ ~r.ok => r.err = look.err

\* The name "CoreData" was looked up and found the block that the integer
\* 0xEE73F55E and the member of that value find.
C14_Witness ==
  /\ look.op = "getitem"
  /\ look.arg = StrVal(<< 67, 111, 114, 101, 68, 97, 116, 97 >>)
  /\ look.ok
  /\ held[look.at].key = KeyCoreData
  /\ getitem(TheIndex, IntOfWord(KeyCoreData)).at = look.at
  /\ getitem(TheIndex, HashDBKeysMember("CoreData", IntOfWord(KeyCoreData))).at = look.at

\* Some block of B carries the key the argument denotes.
Carried(B, item) ==
  DenotesKey(item) /\ \E i \in 1..Len(B) : B[i].key = KeyDenoted(item)

\* C15: lookup of an int, a HashDBKeys member or a string whose key no block
\* carries fails with KeyError, lookup of an argument of any other type fails
\* with TypeError, and a lookup leaves the HashDB as it was.
C15_LookupFailures ==
  (look.op = "getitem")
    => /\ (look.arg.kind \in {"int", "HashDBKeys", "str"} /\ ~Carried(held, look.arg))
            => ~look.ok /\ look.err = "KeyError"
       /\ look.arg.kind \notin {"int", "HashDBKeys", "str"}
            => ~look.ok /\ look.err = "TypeError"
       /\ held = look.pre.blocks
       /\ db = look.pre.db

\* The name "a", which no block of a HashDB of three blocks carries, was looked
\* up.
C15_Witness ==
  /\ look.op = "getitem"
  /\ look.arg = StrVal(<< 97 >>)
  /\ Len(held) = 3
  /\ ~look.ok
  /\ look.err = "KeyError"

\* What get_value() gives for a block of type t after value v was assigned:
\* an int wrapped into the type's range, a float as it is.
Reflects(t, v) ==
  IF v.kind = "int" THEN Wrap(v, get_type_size(t), IsSigned(t)) ELSE v

ScalarTags == {BYTE, UINT16, UINT32, UINT64, SBYTE, INT16, INT32, INT64, SINGLE, DOUBLE}

\* A value of the kind a block of type t holds: an int for an integer type, a
\* float of the type's format for SINGLE and DOUBLE.
ValueOfKind(t, v) ==
  IF IsFloat(t) THEN v.kind = "float" /\ v.fmt = FloatFmt(t) ELSE v.kind = "int"

\* C19: after hash_db[key] = v with an int or a string as key: if the block
\* under the key is scalar and v a value of its kind, the block's get_value()
\* gives v and no other block changes; if the block is not scalar, the
\* assignment fails and the block is unchanged; if no block carries the key, the
\* assignment fails and the HashDB is unchanged.
C19_AssignThroughIndex ==
  (look.op = "setitem" /\ look.arg.kind \in {"int", "str"})
    => IF ~Carried(look.pre.blocks, look.arg)
       THEN ~look.ok /\ held = look.pre.blocks /\ db = look.pre.db
       ELSE LET j == LastWithKey(look.pre.blocks, KeyDenoted(look.arg))
            IN IF look.pre.blocks[j].type \in ScalarTags
               THEN ValueOfKind(look.pre.blocks[j].type, look.val)
                      => /\ get_value(held[j]).ok
                         /\ get_value(held[j]).val = Reflects(held[j].type, look.val)
                         /\ \A m \in 1..Len(held) : m # j => held[m] = look.pre.blocks[m]
                         /\ Len(held) = Len(look.pre.blocks)
                         /\ db = look.pre.db
               ELSE ~look.ok /\ held = look.pre.blocks /\ db = look.pre.db

---------------------------------------------------------------------------
(* Properties of the scrambler and of the keystream                        *)

\* C21: crypt_static_xorpad_bytes replaces the byte at every position i (from
\* 0) of the buffer by that byte XOR STATIC_XORPAD[i mod 127]: the pad repeats
\* with period 127, only its bytes 0..126 alter a position, and its 128th byte,
\* which is 0, alters none.
C21_XorpadPeriod ==
  (got.op = "crypt_static_xorpad_bytes")
    => /\ Len(buf) = Len(got.arg)
       /\ \A i \in 0..(Len(buf) - 1) :
            buf[i + 1] = BitXor(got.arg[i + 1], STATIC_XORPAD[(i % 127) + 1])
       /\ Len(STATIC_XORPAD) = 128
       /\ STATIC_XORPAD[128] = 0

\* A buffer of 256 bytes was scrambled: the bytes at positions 127 and 254 were
\* changed by the pad's first byte, the byte at position 128 by its second.
C21_Witness ==
  /\ got.op = "crypt_static_xorpad_bytes"
  /\ Len(buf) = 256
  /\ buf[128] = BitXor(got.arg[128], STATIC_XORPAD[1])
  /\ buf[128] # got.arg[128]
  /\ buf[255] = BitXor(got.arg[255], STATIC_XORPAD[1])
  /\ buf[129] = BitXor(got.arg[129], STATIC_XORPAD[2])

\* The number of bits set in a 32-bit word.
RECURSIVE Ones(_)
Ones(n) == IF n = 0 THEN 0 ELSE (n % 2) + Ones(n \div 2)

PopCount(w) == Ones(w[1]) + Ones(w[2])

\* advance applied n times to a word: n - 1 times, then once more.
RECURSIVE Advanced(_, _)
Advanced(s, n) ==
  IF n = 0 THEN s
  ELSE Only({ xorshift_advance(t) : t \in {Advanced(s, n - 1)} })

\* The k-th byte (from 0) of the keystream of a seed.
KeystreamByte(s, k) == StateByte(Advanced(s, PopCount(s) + (k \div 4)), k % 4)

IsKeystream(s, bytes) ==
  \A k \in 0..(Len(bytes) - 1) : bytes[k + 1] = KeystreamByte(s, k)

\* C22: after any sequence of next() and next32() calls a generator's counter
\* is in 0..3 and its state a 32-bit word, and the k-th byte it has returned is
\* byte k mod 4 of advance applied popcount(seed) + k div 4 times to the seed;
\* two generators built from the same seed return the same bytes.
C22_KeystreamOfSeed ==
  /\ \A g \in {1, 2} :
       /\ gens[g].counter \in 0..3
       /\ gens[g].state[1] \in 0..65535
       /\ gens[g].state[2] \in 0..65535
       /\ IsKeystream(seed, emitted[g])
  /\ \A k \in 1..Len(emitted[1]) : k <= Len(emitted[2]) => emitted[1][k] = emitted[2][k]

\* From the seed 0x12345678 one generator has returned seven bytes, the other
\* twelve, which took its state through three words.
C22_Witness ==
  /\ seed = KeyA
  /\ Len(emitted[1]) = 7
  /\ gens[1].counter = 3
  /\ Len(emitted[2]) = 12
  /\ gens[2].counter = 0
  /\ gens[2].state = Advanced(seed, PopCount(seed) + 3)
  /\ gens[2].state # gens[1].state
  /\ SubSeq(emitted[2], 1, 7) = emitted[1]

---------------------------------------------------------------------------
(* Properties of the pipeline's and the block's frames                      *)

\* C23: encrypt, and with it get_decrypted_raw_data and the write_block of
\* every block, leaves the list of blocks as it was, whether it succeeds or
\* fails: the same blocks in the same order, each with the key, type, sub_type
\* and payload it had; and encoding the list again gives the same bytes.
C23_EncodingKeepsBlocks ==
  (last.op = "encrypt")
    => /\ blocks = before.blocks
       /\ \A i \in 1..Len(blocks) :
            \A wk \in BOOLEAN : write_block(blocks[i], wk).self = before.blocks[i]
       /\ get_decrypted_raw_data(blocks).blocks = before.blocks
       /\ last.ok => /\ encrypt(blocks).ok
                     /\ encrypt(blocks).out = file
       /\ ~last.ok => ~encrypt(blocks).ok /\ file = before.file

\* Two blocks were encoded, which failed at the second, an array without
\* element type, after the first had been written.
C23_Witness ==
  /\ last.op = "encrypt"
  /\ ~last.ok
  /\ Len(before.blocks) = 2
  /\ write_block(before.blocks[1], TRUE).ok
  /\ Len(before.blocks[1].raw) > 0
  /\ ~write_block(before.blocks[2], TRUE).ok
  /\ blocks = before.blocks

\* The length the type asks of the payload: none for a boolean, the fixed width
\* for a scalar, a whole number of elements for an array, any for an object.
FitsType(b) ==
  CASE b.type \in {BOOL1, BOOL2, BOOL3} -> Len(b.raw) = 0
    [] b.type \in {BYTE, SBYTE} -> Len(b.raw) = 1
    [] b.type \in {UINT16, INT16} -> Len(b.raw) = 2
    [] b.type \in {UINT32, INT32, SINGLE} -> Len(b.raw) = 4
    [] b.type \in {UINT64, INT64, DOUBLE} -> Len(b.raw) = 8
    [] b.type = ARRAY -> HasTypeSize(b.sub_type) /\ Len(b.raw) % get_type_size(b.sub_type) = 0
    [] b.type = OBJECT -> TRUE
    [] OTHER -> FALSE

\* C24: a block as decoding produces it keeps, through any sequence of
\* change_data, set_value, change_boolean_type and copy_from calls, succeeding
\* or failing, its key and the length of its payload, and the length goes on
\* fitting the type: 0 for booleans, the fixed width for scalars, count times
\* the element size for arrays, whose sub_type stays too.
C24_KeyAndLengthKept ==
  Legal(born)
    => /\ blk.key = born.key
       /\ Len(blk.raw) = Len(born.raw)
       /\ blk.sub_type = born.sub_type
       /\ FitsType(blk)
       /\ is_boolean(blk.type) = is_boolean(born.type)
       /\ ~is_boolean(born.type) => blk.type = born.type

\* A legal UINT32 block took another payload by copy_from after a set_value
\* that failed, and still has its key and its four bytes.
C24_Witness ==
  /\ Legal(born)
  /\ born.type = UINT32
  /\ call.op = "copy_from"
  /\ call.ok
  /\ blk.raw # born.raw
  /\ pre.raw = Zeros(4)
  /\ blk.raw # pre.raw
  /\ blk.key = born.key

\* C26: b.clone() returns a block equal to b in key, type, sub_type and payload
\* that write_block encodes to the same bytes as b, also for an array of no
\* elements; and changing the clone by change_data, set_value or
\* change_boolean_type leaves b as it is.
C26_CloneEqualsOriginal ==
  (call.op = "clone")
    => /\ blk = pre
       /\ call.ret.key = blk.key
       /\ call.ret.type = blk.type
       /\ call.ret.sub_type = blk.sub_type
       /\ call.ret.raw = blk.raw
       /\ write_block(call.ret, TRUE).ok = write_block(blk, TRUE).ok
       /\ write_block(blk, TRUE).ok
            => write_block(call.ret, TRUE).out = write_block(blk, TRUE).out

\* C28 as stated: whenever a.copy_from(b) succeeds, a equals b in type,
\* sub_type and payload and keeps its key; whenever it fails, a is unchanged.
C28_CopyFromCopiesAll ==
  (call.op = "copy_from")
    => IF call.ok
       THEN /\ blk.type = call.arg.type
            /\ blk.sub_type = call.arg.sub_type
            /\ blk.raw = call.arg.raw
            /\ blk.key = pre.key
       ELSE blk = pre

\* C28, amended: a.copy_from(b) succeeds when a is BOOL1 or BOOL2 and b is too,
\* and then a takes b's type and nothing else; or when a is not a boolean and
\* b's payload is as long as a's, and then a takes b's payload and nothing
\* else, keeping its own type and sub_type. In every other case it fails and a
\* is unchanged.
C28_CopyFromMerges ==
  (call.op = "copy_from")
    => /\ call.ok = IF pre.type \in {BOOL1, BOOL2, BOOL3}
                    THEN pre.type \in {BOOL1, BOOL2} /\ call.arg.type \in {BOOL1, BOOL2}
                    ELSE Len(call.arg.raw) = Len(pre.raw)
       /\ blk.key = pre.key
       /\ blk.sub_type = pre.sub_type
       /\ IF call.ok /\ pre.type \in {BOOL1, BOOL2}
          THEN blk.type = call.arg.type /\ blk.raw = pre.raw
          ELSE IF call.ok
          THEN blk.type = pre.type /\ blk.raw = call.arg.raw
          ELSE blk = pre

\* A UINT32 block took the payload of an INT32 block and is still a UINT32.
C28_Witness ==
  /\ call.op = "copy_from"
  /\ call.ok
  /\ pre.type = UINT32
  /\ call.arg.type = INT32
  /\ blk.type = UINT32
  /\ blk.raw = call.arg.raw
  /\ blk.raw # pre.raw
---------------------------------------------------------------------------
(* Properties of membership in a HashDB and of edits through it            *)

\* C27: membership and lookup agree: for every HashDB and every argument x
\* that lookup accepts, an int, a HashDBKeys member or a str, x in hash_db is
\* true exactly when hash_db[x] returns a block and does not raise KeyError.
C27_MembershipAgreesWithLookup ==
  (look.op = "contains" /\ look.arg.kind \in {"int", "HashDBKeys", "str"})
    => look.val.val = getitem(TheIndex, look.arg).ok

\* The list of blocks as a file of it decodes: decrypt(encrypt(blocks)).
Recoded(B) == decrypt(encrypt(B).out)

\* C29: the HashDB shares its blocks with the list it was built from, so an
\* edit through a looked-up block changes one block of the list: after
\* hash_db[k].change_data(payload) or hash_db[k] = value, decrypt(encrypt(list))
\* differs from what the list decoded to before only in the payload of the last
\* block with key k; every other block, earlier blocks with key k among them,
\* and the order and number of blocks are as they were. A change_data that
\* succeeds leaves the payload given in that block.
C29_EditThroughIndex ==
  (look.op \in {"change_data", "setitem"} /\ look.arg.kind \in {"int", "HashDBKeys", "str"})
    => LET was == Recoded(look.pre.blocks)
           now == Recoded(held)
       IN /\ was.ok /\ was.blocks = look.pre.blocks
          /\ now.ok /\ now.blocks = held
          /\ Len(now.blocks) = Len(was.blocks)
          /\ db = look.pre.db
          /\ IF ~Carried(look.pre.blocks, look.arg)
             THEN ~look.ok /\ now.blocks = was.blocks
             ELSE LET j == LastWithKey(look.pre.blocks, KeyDenoted(look.arg))
                  IN /\ \A m \in 1..Len(was.blocks) :
                          /\ now.blocks[m].key = was.blocks[m].key
                          /\ now.blocks[m].type = was.blocks[m].type
                          /\ now.blocks[m].sub_type = was.blocks[m].sub_type
                          /\ Len(now.blocks[m].raw) = Len(was.blocks[m].raw)
                          /\ m # j => now.blocks[m] = was.blocks[m]
                     /\ (look.op = "change_data" /\ look.ok)
                          => now.blocks[j].raw = look.val.bytes
                     /\ (look.op = "change_data" /\ ~look.ok)
                          => now.blocks = was.blocks

\* The CoreData block looked up by its HashDBKeys member was given another
\* payload; an earlier block of the list carries the same key and kept its own.
C29_Witness ==
  /\ look.op = "change_data"
  /\ look.ok
  /\ look.arg = HashDBKeysMember("CoreData", IntOfWord(KeyCoreData))
  /\ look.at > 1
  /\ \E m \in 1..(look.at - 1) :
       held[m].key = KeyCoreData /\ held[m] = look.pre.blocks[m]
  /\ held[look.at].raw # look.pre.blocks[look.at].raw
  /\ Recoded(held).blocks[look.at].raw = look.val.bytes
---------------------------------------------------------------------------
(* coredata.py: CoreData                                                   *)

\* CoreData.SIZE.
CORE_DATA_SIZE == 120

\* value // 10 and value % 10 of a non-negative int given by its little-endian
\* bytes: long division from the most significant byte down, rem the
\* remainder carried into byte n.
RECURSIVE DivMod10(_, _, _)
DivMod10(mag, n, rem) ==
  IF n = 0 THEN [quot |-> << >>, rem |-> rem]
  ELSE Only({ Only({ [quot |-> low.quot \o << cur \div 10 >>, rem |-> low.rem]
                     : low \in {DivMod10(mag, n - 1, cur % 10)} })
              : cur \in {rem * 256 + mag[n]} })

\* str(value) of a non-negative int: its decimal digits as code points.
RECURSIVE DecimalDigits(_)
DecimalDigits(value) ==
  IF value.mag = << >> THEN << >>
  ELSE Only({ DecimalDigits(IntOfBytes(d.quot)) \o << 48 + d.rem >>
              : d \in {DivMod10(value.mag, Len(value.mag), 0)} })

\* str(value).zfill(10) of a non-negative int.
StrZfill10(value) ==
  LET digits == IF value.mag = << >> THEN << 48 >> ELSE DecimalDigits(value)
  IN StrVal([i \in 1..(IF Len(digits) < 10 THEN 10 - Len(digits) ELSE 0) |-> 48] \o digits)

\* mag * 10 + digit on little-endian bytes, carry running up from byte i.
RECURSIVE MulAdd10(_, _, _)
MulAdd10(mag, i, carry) ==
  IF i > Len(mag) THEN (IF carry = 0 THEN << >> ELSE << carry >>)
  ELSE Only({ << cur % 256 >> \o MulAdd10(mag, i + 1, cur \div 256)
              : cur \in {mag[i] * 10 + carry} })

\* The magnitude of a text of ASCII digits, most significant first.
RECURSIVE DigitsValue(_, _)
DigitsValue(chars, mag) ==
  IF chars = << >> THEN mag
  ELSE Only({ DigitsValue(Tail(chars), m) : m \in {MulAdd10(mag, 1, Head(chars) - 48)} })

\* chars without its leading and trailing spaces.
RECURSIVE StripSpaces(_)
StripSpaces(chars) ==
  IF chars = << >> THEN chars
  ELSE IF Head(chars) = 32 THEN StripSpaces(Tail(chars))
  ELSE IF chars[Len(chars)] = 32 THEN StripSpaces(SubSeq(chars, 1, Len(chars) - 1))
  ELSE chars

\* int(text) for a text of ASCII characters: spaces around it are dropped, a
\* sign may lead, and at least one digit follows; any other text raises
\* ValueError.
int_of_str(text) ==
  LET body == StripSpaces(text.chars)
      signed == body # << >> /\ Head(body) \in {43, 45}
      digits == IF signed THEN Tail(body) ELSE body
  IN IF digits = << >> \/ \E i \in 1..Len(digits) : digits[i] \notin 48..57
     THEN [ok |-> FALSE, err |-> "ValueError"]
     ELSE Only({ [ok |-> TRUE,
                  val |-> IntVal(signed /\ Head(body) = 45 /\ m.mag # << >>, m.mag)]
                 : m \in {IntOfBytes(DigitsValue(digits, << >>))} })

\* struct.unpack('<H', ...) of the two bytes at offset o, and struct.pack of it.
UnpackU16(data, o) == data[o + 1] + 256 * data[o + 2]

PackU16(code) == << code % 256, code \div 256 >>

\* The float struct.unpack('<f', bytes) gives, packed again: Python holds it as
\* a double, and the conversion sets the quiet bit of a signalling NaN where
\* the build's conversion does so (quiets).
SingleRepacked(bytes, quiets) ==
  LET nan == bytes[4] % 128 = 127 /\ bytes[3] >= 128
                /\ (bytes[3] % 128 # 0 \/ bytes[2] # 0 \/ bytes[1] # 0)
  IN FloatVal("f", IF quiets /\ nan /\ bytes[3] % 128 < 64
                   THEN << bytes[1], bytes[2], bytes[3] + 64, bytes[4] >>
                   ELSE bytes)

\* CoreData.from_bytes(data): the object, or ValueError for data that is not
\* SIZE bytes long. The two bytes at offsets 118 and 119 are not read.
from_bytes(data, quiets) ==
  IF Len(data) # CORE_DATA_SIZE THEN [ok |-> FALSE, err |-> "ValueError"]
  ELSE Only({
    [ok |-> TRUE, err |-> "",
     core_data |->
       [id |-> StrZfill10(UnpackUnsigned(Slice(d, 0, 4))),
        id_int |-> UnpackUnsigned(Slice(d, 0, 4)),
        rom_code |-> d[5], sex |-> d[6], padding1 |-> d[7], poke_language_id |-> d[8],
        nex_unique_id |-> UnpackUnsigned(Slice(d, 8, 16)),
        name |-> [i \in 1..13 |-> UnpackU16(d, 16 + 2 * (i - 1))],
        player_icon_id |-> UnpackUnsigned(Slice(d, 42, 46)),
        nex_principal_rom_id |-> UnpackUnsigned(Slice(d, 46, 54)),
        member_rank |-> d[55],
        member_rank_exp |-> IntOfBytes(Slice(d, 55, 58)),
        npln_user_id |-> Slice(d, 58, 87),
        is_npln_user_id_valid |-> d[88],
        birthday_month |-> d[89], birthday_day |-> d[90],
        partner_walk_count |-> UnpackU16(d, 90),
        padding2 |-> Slice(d, 92, 97),
        illegal_egg_check_ver120 |-> d[98],
        egg_hatch_count |-> UnpackUnsigned(Slice(d, 98, 102)),
        mega_power |-> SingleRepacked(Slice(d, 102, 106), quiets),
        mega_evo_timer |-> SingleRepacked(Slice(d, 106, 110), quiets),
        player_hp |-> UnpackUnsigned(Slice(d, 110, 114)),
        is_birthday_set |-> d[115], is_birthday_event_view |-> d[116],
        birthday_event_view_year |-> UnpackU16(d, 116)]]
    : d \in {data} })

\* The bytes of to_bytes from offset 4 on, which no conversion can refuse for
\* an object that from_bytes made: the last two are zero.
ToBytesTail(c) ==
  << c.rom_code, c.sex, c.padding1, c.poke_language_id >>
    \o PackInt(c.nex_unique_id, 8)
    \o [i \in 1..26 |-> PackU16(c.name[(i + 1) \div 2])[2 - (i % 2)]]
    \o PackInt(c.player_icon_id, 4)
    \o PackInt(c.nex_principal_rom_id, 8)
    \o << c.member_rank % 256 >> \o PadTo(c.member_rank_exp.mag, 3)
    \o c.npln_user_id \o << c.is_npln_user_id_valid >>
    \o << c.birthday_month, c.birthday_day >>
    \o PackU16(c.partner_walk_count)
    \o c.padding2
    \o << c.illegal_egg_check_ver120 >>
    \o PackInt(c.egg_hatch_count, 4)
    \o c.mega_power.bits \o c.mega_evo_timer.bits
    \o PackInt(c.player_hp, 4)
    \o << c.is_birthday_set, c.is_birthday_event_view >>
    \o PackU16(c.birthday_event_view_year)
    \o Zeros(2)

\* CoreData.to_bytes(): the bytes, or the exception of int(self.id) or of
\* struct.pack('<I ...') for an id that is no number or does not fit 32 bits.
to_bytes(c) ==
  Only({ IF ~n.ok THEN [ok |-> FALSE, err |-> n.err]
         ELSE IF ~InUnsignedRange(n.val, 4) THEN [ok |-> FALSE, err |-> "struct.error"]
         ELSE [ok |-> TRUE, err |-> "", data |-> PackInt(n.val, 4) \o ToBytesTail(c)]
         : n \in {int_of_str(c.id)} })

\* name_str.encode('utf-16-le') as 16-bit code units: a code point above U+FFFF
\* becomes a surrogate pair (the texts here hold no lone surrogate).
RECURSIVE EncodeUtf16(_)
EncodeUtf16(chars) ==
  IF chars = << >> THEN << >>
  ELSE (IF Head(chars) < 65536 THEN << Head(chars) >>
        ELSE << 55296 + ((Head(chars) - 65536) \div 1024),
                56320 + ((Head(chars) - 65536) % 1024) >>)
       \o EncodeUtf16(Tail(chars))

\* set_name_string(name_str): the first 13 code units of the name, zero filled.
set_name_string(c, name_str) ==
  Only({ [c EXCEPT !.name = [i \in 1..13 |-> IF i <= Len(units) THEN units[i] ELSE 0]]
         : units \in {EncodeUtf16(name_str.chars)} })

\* CoreData.__str__(): get_gender() raises ValueError for a sex that is no
\* member of Gender.
core_data_str(c) ==
  IF c.sex \in {0, 1} THEN [ok |-> TRUE, err |-> ""] ELSE [ok |-> FALSE, err |-> "ValueError"]

\* set_id(id_value) for a str: kept as it is.
set_id(c, id_value) == [c EXCEPT !.id = id_value]
---------------------------------------------------------------------------
(* main.py: the three commands, statement by statement                     *)

\* CoreData payloads: all zero; every byte its offset (the sex byte 1), so
\* that the last two bytes are not zero; a signalling NaN as mega_power; and a
\* sex byte that no Gender has.
PayZero == Zeros(CORE_DATA_SIZE)
PayCount == [i \in 1..CORE_DATA_SIZE |-> IF i = 6 THEN 1 ELSE i - 1]
PayNaN == [PayZero EXCEPT ![105] = 160, ![106] = 127]
PaySex == [PayZero EXCEPT ![6] = 2]

\* The stored CoreData block: an OBJECT of the payload's length.
StoredCore(data) ==
  Stored(KeyCoreData, << 4, Len(data) % 256, Len(data) \div 256, 0, 0 >> \o data)

\* Input files: with a CoreData block of each payload, with two CoreData
\* blocks, with none, with one of the wrong length, with a stream that does
\* not decode, with a wrong hash, and shorter than a hash.
MainFiles ==
  { Sealed(Stored(KeyA, PlainU16) \o StoredCore(p), TRUE) : p \in {PayZero, PayCount, PayNaN, PaySex} }
    \cup { Sealed(StoredCore(PayZero) \o StoredCore(PayCount), TRUE),
           Sealed(Stored(KeyA, PlainObject), TRUE),
           Sealed(<< >>, TRUE),
           Sealed(StoredCore(<< 7, 8 >>), TRUE),
           Sealed(Stored(KeyA, PlainGapTag), TRUE),
           Sealed(StoredCore(PayCount), FALSE),
           FlipBit(Sealed(StoredCore(PayZero), TRUE), 20, 1),
           << 1, 2, 3 >> }

\* --name: absent, "ZA", and a name of 14 characters, one of them outside the
\* basic plane.
SampleNewNames ==
  { NoItem, StrVal(<< 90, 65 >>),
    StrVal(<< 128512, 66, 67, 68, 69, 70, 71, 72, 73, 74, 75, 76, 77, 78 >>) }

\* --id: absent, "0412898312", "abc" and "4294967296".
SampleNewIds ==
  { NoItem, StrVal(<< 48, 52, 49, 50, 56, 57, 56, 51, 49, 50 >>),
    StrVal(<< 97, 98, 99 >>),
    StrVal(<< 52, 50, 57, 52, 57, 54, 55, 50, 57, 54 >>) }

Command(op, exists, bytes, name, player_id) ==
  [op |-> op, exists |-> exists, file |-> bytes, name |-> name, player_id |-> player_id]

\* The calls of get_core_data, modify_core_data and repair_save: on a file that
\* exists, and on a path where there is none.
SampleCommands ==
  { Command(op, TRUE, f, NoItem, NoItem) : op \in {"get_core_data", "repair_save"}, f \in MainFiles }
    \cup { Command("modify_core_data", TRUE, f, n, i)
           : f \in MainFiles, n \in SampleNewNames, i \in SampleNewIds }
    \cup { Command(op, FALSE, << >>, NoItem, NoItem)
           : op \in {"get_core_data", "modify_core_data", "repair_save"} }

MainInit ==
  /\ argv \in SampleCommands
  /\ pc = "read"
  /\ raw_file = << >>
  /\ mem_blocks = << >>
  /\ core = [done |-> FALSE, before |-> << >>, after |-> << >>]
  /\ modified_data = << >>
  /\ output = [written |-> FALSE, bytes |-> << >>]
  /\ steps = << >>
  /\ exit_status = "running"
  /\ CodecIdle
  /\ BlockIdle
  /\ BufIdle
  /\ IndexIdle
  /\ KeyIdle

\* The command ends: it returns False or None (failure), returns True or the
\* CoreData (success), or an exception leaves it (raised).
Ends(how) ==
  /\ pc' = "done"
  /\ exit_status' = how

\* if not input_file.exists(): return; data = f.read().
ReadFile ==
  /\ pc = "read"
  /\ IF ~argv.exists
     THEN /\ Ends("failure")
          /\ UNCHANGED << raw_file, steps >>
     ELSE /\ raw_file' = argv.file
          /\ steps' = Append(steps, "read")
          /\ pc' = "get_is_hash_valid"
          /\ UNCHANGED exit_status
  /\ UNCHANGED << argv, mem_blocks, core, modified_data, output >>
  /\ UNCHANGED << codecVars, blockVars, bufVars, indexVars, keyVars >>

\* The hash check reporting an invalid hash and going on to decrypt.
VerifyHash_going_on ==
  /\ pc = "get_is_hash_valid"
  /\ steps' = Append(steps, "get_is_hash_valid")
  /\ pc' = "decrypt"
  /\ UNCHANGED << exit_status, argv, raw_file, mem_blocks, core, modified_data, output >>
  /\ UNCHANGED << codecVars, blockVars, bufVars, indexVars, keyVars >>

\* if not SwishCrypto.get_is_hash_valid(data): return.
VerifyHash ==
  /\ pc = "get_is_hash_valid"
  /\ steps' = Append(steps, "get_is_hash_valid")
  /\ IF get_is_hash_valid(raw_file)
     THEN pc' = "decrypt" /\ UNCHANGED exit_status
     ELSE Ends("failure")
  /\ UNCHANGED << argv, raw_file, mem_blocks, core, modified_data, output >>
  /\ UNCHANGED << codecVars, blockVars, bufVars, indexVars, keyVars >>

\* blocks = SwishCrypto.decrypt(data).
DecryptFile ==
  /\ pc = "decrypt"
  /\ steps' = Append(steps, "decrypt")
  /\ \E r \in {decrypt(raw_file)} :
       IF r.ok
       THEN /\ mem_blocks' = r.blocks
            /\ pc' = IF argv.op = "repair_save" THEN "encrypt" ELSE "core_data"
            /\ UNCHANGED exit_status
       ELSE /\ Ends("raised")
            /\ UNCHANGED mem_blocks
  /\ UNCHANGED << argv, raw_file, core, modified_data, output >>
  /\ UNCHANGED << codecVars, blockVars, bufVars, indexVars, keyVars >>

\* The object modify_core_data packs: core_data after set_name_string and
\* set_id for the arguments given.
Renamed(c) ==
  LET named == IF argv.name = NoItem THEN c ELSE set_name_string(c, argv.name)
  IN IF argv.player_id = NoItem THEN named ELSE set_id(named, argv.player_id)

\* hash_db = HashDB(blocks) and the try block: the CoreData block looked up,
\* parsed and printed, which ends get_core_data; in modify_core_data then
\* renamed, packed and written back into the block. KeyError alone is caught.
\* quiets: whether the build's float conversion quiets a signalling NaN.
EditCoreData(quiets) ==
  /\ pc = "core_data"
  /\ steps' = Append(steps, "edit")
  /\ \E g \in {getitem(HashDB(mem_blocks), HashDBKeysMember("CoreData", IntOfWord(KeyCoreData)))} :
       IF ~g.ok
       THEN /\ Ends(IF g.err = "KeyError" THEN "failure" ELSE "raised")
            /\ UNCHANGED << mem_blocks, core >>
       ELSE \E f \in {from_bytes(mem_blocks[g.at].raw, quiets)} :
              IF ~f.ok \/ ~core_data_str(f.core_data).ok
              THEN /\ Ends("raised")
                   /\ UNCHANGED << mem_blocks, core >>
              ELSE IF argv.op = "get_core_data"
              THEN /\ Ends("success")
                   /\ UNCHANGED << mem_blocks, core >>
              ELSE \E t \in {to_bytes(Renamed(f.core_data))} :
                     IF ~t.ok
                     THEN /\ Ends("raised")
                          /\ UNCHANGED << mem_blocks, core >>
                     ELSE \E w \in {change_data(mem_blocks[g.at], t.data)} :
                            /\ mem_blocks' = [mem_blocks EXCEPT ![g.at] = w.block]
                            /\ core' = [done |-> TRUE, before |-> mem_blocks[g.at].raw,
                                        after |-> w.block.raw]
                            /\ IF w.ok THEN pc' = "encrypt" /\ UNCHANGED exit_status
                               ELSE Ends("raised")
  /\ UNCHANGED << argv, raw_file, modified_data, output >>
  /\ UNCHANGED << codecVars, blockVars, bufVars, indexVars, keyVars >>

\* modified_data = SwishCrypto.encrypt(blocks).
EncryptBlocks ==
  /\ pc = "encrypt"
  /\ steps' = Append(steps, "encrypt")
  /\ \E r \in {encrypt(mem_blocks)} :
       /\ mem_blocks' = r.blocks
       /\ IF r.ok
          THEN /\ modified_data' = r.out
               /\ pc' = "write"
               /\ UNCHANGED exit_status
          ELSE /\ Ends("raised")
               /\ UNCHANGED modified_data
  /\ UNCHANGED << argv, raw_file, core, output >>
  /\ UNCHANGED << codecVars, blockVars, bufVars, indexVars, keyVars >>

\* with open(output_path, 'wb') as f: f.write(modified_data); return True.
WriteFile ==
  /\ pc = "write"
  /\ steps' = Append(steps, "write")
  /\ output' = [written |-> TRUE, bytes |-> modified_data]
  /\ Ends("success")
  /\ UNCHANGED << argv, raw_file, mem_blocks, core, modified_data >>
  /\ UNCHANGED << codecVars, blockVars, bufVars, indexVars, keyVars >>

MainNext ==
  \/ ReadFile
  \/ VerifyHash
  \/ DecryptFile
  \/ \E quiets \in BOOLEAN : EditCoreData(quiets)
  \/ EncryptBlocks
  \/ WriteFile

SpecMain == MainInit /\ [][MainNext]_vars
---------------------------------------------------------------------------
(* Properties of the commands of main.py                                   *)

\* The steps of each command in the order of its statements.
StepOrder(op) ==
  CASE op = "repair_save" -> << "read", "get_is_hash_valid", "decrypt", "encrypt", "write" >>
    [] op = "modify_core_data" ->
         << "read", "get_is_hash_valid", "decrypt", "edit", "encrypt", "write" >>
    [] op = "get_core_data" -> << "read", "get_is_hash_valid", "decrypt", "edit" >>

\* No block of the decoded input file carries the key of CoreData.
CoreDataMissing ==
  /\ decrypt(argv.file).ok
  /\ \A i \in 1..Len(decrypt(argv.file).blocks) : decrypt(argv.file).blocks[i].key # KeyCoreData

\* C25: in each command the steps are taken in the order read, hash check,
\* decrypt, (edit), encrypt, write. When get_is_hash_valid of the input is
\* false, decrypt is never called, no output file is written and the command
\* reports failure; an output file is written only after hash check, decrypt
\* and encrypt have all succeeded, and holds what encrypt returned; and in
\* modify a missing CoreData block ends the command without an output file.
C25_StepsInOrder ==
  /\ argv.op # "idle"
       => /\ Len(steps) <= Len(StepOrder(argv.op))
          /\ steps = SubSeq(StepOrder(argv.op), 1, Len(steps))
  /\ (argv.op # "idle" /\ argv.exists /\ ~get_is_hash_valid(argv.file))
       => /\ \A i \in 1..Len(steps) : steps[i] \in {"read", "get_is_hash_valid"}
          /\ ~output.written
          /\ pc = "done" => exit_status = "failure"
          /\ Len(steps) = 2 => pc = "done"
  /\ output.written
       => /\ argv.op \in {"repair_save", "modify_core_data"}
          /\ steps = StepOrder(argv.op)
          /\ get_is_hash_valid(argv.file)
          /\ decrypt(argv.file).ok
          /\ encrypt(mem_blocks).ok
          /\ output.bytes = encrypt(mem_blocks).out
          /\ exit_status = "success"
  /\ (argv.op = "modify_core_data" /\ argv.exists /\ get_is_hash_valid(argv.file)
        /\ CoreDataMissing /\ pc = "done")
       => /\ ~output.written
          /\ exit_status = "failure"
          /\ steps = << "read", "get_is_hash_valid", "decrypt", "edit" >>
  /\ (argv.op # "idle" /\ exit_status # "success") => ~output.written

\* modify_core_data read a file whose hash is wrong and returned False after
\* the hash check, with nothing decrypted and nothing written.
C25_Witness ==
  /\ argv.op = "modify_core_data"
  /\ argv.exists
  /\ Len(argv.file) > SIZE_HASH
  /\ ~get_is_hash_valid(argv.file)
  /\ steps = << "read", "get_is_hash_valid" >>
  /\ pc = "done"
  /\ exit_status = "failure"
  /\ ~output.written

\* The offsets of the payload an edit is to change: the name field for a name
\* given, the ID field for an ID given.
EditedOffsets ==
  (IF argv.name = NoItem THEN {} ELSE 16..41)
    \cup (IF argv.player_id = NoItem THEN {} ELSE 0..3)

\* The offsets of the two float fields, mega_power and mega_evo_timer.
FloatOffsets == 102..109

\* C30: for every 120-byte CoreData payload d, CoreData.from_bytes(d).to_bytes()
\* is 120 bytes long and equal to d byte for byte, the float fields apart; so
\* a modify that changes the name or the ID alone leaves every byte outside
\* the name field (offsets 16..41), resp. the ID field (offsets 0..3), as it
\* was, the two bytes at offsets 118 and 119 among them.
C30_PayloadRoundTrip ==
  core.done
    => /\ Len(core.before) = CORE_DATA_SIZE
       /\ Len(core.after) = CORE_DATA_SIZE
       /\ \A o \in 0..(CORE_DATA_SIZE - 1) :
            o \notin (EditedOffsets \cup FloatOffsets) => core.after[o + 1] = core.before[o + 1]
=============================================================================
